---- MODULE Spec2Model ----
(***************************************************************************)
(* A model of sind's cluster bootstrap: CreateCluster (pkg/sind) with its  *)
(* helpers runContainer, runContainers, waitDaemonReady, waitClusterReady, *)
(* countNodesPerRole and execContainer.  The docker daemon of the host and *)
(* the daemon embedded in the primary node are the environment: each call  *)
(* to them either succeeds or fails, and a call issued with a context that *)
(* is already done fails.                                                  *)
(***************************************************************************)
EXTENDS Integers, Sequences, FiniteSets, TLC

\* ------------------------------------------------------------------ bounds
\* The largest cluster (managers and workers together) a call asks for.
MaxCluster == 3
\* The longest membership listing the primary's daemon answers with.
MaxNodes == 3
\* The probes a poller issues after its context is done are counted up to MaxLate.
MaxLate == 2
\* The most containers the listing of a cluster answers PushImage with.
MaxPush == 3

\* --------------------------------------------------------------- constants
NoErr == ""
Canceled == "context canceled"
DeadlineExceeded == "context deadline exceeded"

ErrEmptyClusterName == "empty cluster name"
ErrEmptyNetworkName == "empty network name"
ErrInvalidManagersCount == "invalid manager count, must be >= 1"
ErrInvalidWorkerCount == "invalid worker count, must be >= 0"
ErrPrimaryNodeNotBound == "primary node is not exposing docker daemon port"
DefaultNodeImageName == "docker:18.09-dind"
defaultSwarmListenAddr == "0.0.0.0:2377"

primaryNode == "primary"
managerNode == "manager"
workerNode == "worker"

NodeRoleManager == "manager"
NodeRoleWorker == "worker"
NodeStateReady == "ready"
NodeStateDown == "down"

\* The values the model draws the fields of CreateClusterParams from.
ParamsSpace ==
    {p \in [ClusterName : {"", "c1"},
            NetworkName : {"", "net"},
            NetworkSubnet : {"", "10.7.0.0/24"},
            Managers : 0..MaxCluster,
            Workers : (0 - 1)..MaxCluster,
            ImageName : {"", "jlevesy/docker:dind"},
            PullImage : BOOLEAN] : p.Managers + p.Workers <= MaxCluster}

\* swarm.Node, reduced to the two fields countNodesPerRole reads.
NodeKinds == [Role : {NodeRoleManager, NodeRoleWorker}, State : {NodeStateReady, NodeStateDown}]

\* The membership listings NodeList can answer with.
Listings == UNION {[1..n -> NodeKinds] : n \in 0..MaxNodes}

\* The NetworkSettings.Ports maps ContainerInspect can answer with.
PortMaps ==
    {{},
     {[port |-> "2376/tcp", bindings |-> <<[HostPort |-> "32769"]>>]},
     {[port |-> "2375/tcp", bindings |-> <<>>]},
     {[port |-> "2375/tcp", bindings |-> <<[HostPort |-> "32768"]>>]}}

VARIABLES
    params,                 \* the CreateClusterParams of the call
    ctxErr,                 \* ctx.Err() of the caller's context, NoErr while it is live
    pc,                     \* position of CreateCluster
    imageExist,             \* result of imageAlreadyExist
    pull,                   \* the image pull stream: "none", "open", "drained"
    networks,               \* the networks the runtime holds
    managerNameGenerator,   \* nameGenerator of the manager names
    workerNameGenerator,    \* nameGenerator of the worker names
    containers,             \* the runtime's containers, by name
    primaryNodeCID,
    swarmPortV,             \* result of swarmPort(primaryNodeInfo)
    rc,                     \* the running runContainers call
    managerNodeCIDs,
    workerNodeCIDs,
    swarm,                  \* the primary node's daemon as the calls left it
    swarmInfo,              \* result of SwarmInspect
    joins,                  \* the join fan-out: tasks and the group's error
    nodes,                  \* the listing of the probe that ended waitClusterReady
    ret,                    \* what CreateCluster returned
    poll,                   \* the ticker and the probes of the running readiness poller
    push,                   \* a call of Cluster.PushImage
    cli                     \* a run of the create command

vars == <<params, ctxErr, pc, imageExist, pull, networks, managerNameGenerator,
          workerNameGenerator, containers, primaryNodeCID, swarmPortV, rc,
          managerNodeCIDs, workerNodeCIDs, swarm, swarmInfo, joins, nodes, ret,
          poll, push, cli>>

\* ----------------------------------------------------------- pure helpers
\* validate with the manager count checked against 0 instead of 1.
validateOffByOne(n) ==
    IF n.ClusterName = "" THEN ErrEmptyClusterName
    ELSE IF n.NetworkName = "" THEN ErrEmptyNetworkName
    ELSE IF n.Managers < 0 THEN ErrInvalidManagersCount
    ELSE IF n.Workers < 0 THEN ErrInvalidWorkerCount
    ELSE NoErr

\* CreateClusterParams.validate: the first failing check decides the error.
validate(n) ==
    IF n.ClusterName = "" THEN ErrEmptyClusterName
    ELSE IF n.NetworkName = "" THEN ErrEmptyNetworkName
    ELSE IF n.Managers < 1 THEN ErrInvalidManagersCount
    ELSE IF n.Workers < 0 THEN ErrInvalidWorkerCount
    ELSE NoErr

managersToRun(n) == n.Managers - 1

imageName(n) == IF n.ImageName # "" THEN n.ImageName ELSE DefaultNodeImageName

\* fmt.Sprintf(pattern, index) for a pattern that ends in %d.
Sprintf(pattern, index) == pattern \o ToString(index)

\* generateName without the increment of the index.
generateNameNoIncrement(g) ==
    [v |-> Sprintf(g.pattern, g.index),
     g |-> [pattern |-> g.pattern, index |-> g.index]]

\* nameGenerator.generateName: the name, and the generator after the call.
generateName(g) ==
    [v |-> Sprintf(g.pattern, g.index),
     g |-> [pattern |-> g.pattern, index |-> g.index + 1]]

\* The zero value of a nameGenerator.
ZeroGen == [pattern |-> "", index |-> 0]

\* The identifier the runtime gives the container it creates under a name.
ContainerID(name) == "id:" \o name

\* primaryNodeCID[0:12]
ShortID(cid) == [prefix |-> 12, of |-> cid]

\* net.JoinHostPort(host, port)
JoinHostPort(host, port) == [host |-> host, port |-> port]

networkConfig(n, networkID) == [Endpoint |-> n.NetworkName, NetworkID |-> networkID]

\* A failed listing taken for a present image.
imageAlreadyExistOnError(listOK, imageList) ==
    IF ~listOK THEN TRUE
    ELSE IF Len(imageList) > 0 THEN TRUE
    ELSE FALSE

\* imageAlreadyExist: a failed listing counts as an absent image.
imageAlreadyExist(listOK, imageList) ==
    IF ~listOK THEN FALSE
    ELSE IF Len(imageList) > 0 THEN TRUE
    ELSE FALSE

\* swarmPort without the test of the bindings: an unbound port is answered
\* as the empty port and no error.
swarmPortUnchecked(ports) ==
    IF ~(\E b \in ports : b.port = "2375/tcp")
      THEN [port |-> "", err |-> NoErr]
    ELSE LET boundsPorts == (CHOOSE b \in ports : b.port = "2375/tcp").bindings IN
         IF Len(boundsPorts) = 0
           THEN [port |-> "", err |-> NoErr]
           ELSE [port |-> boundsPorts[1].HostPort, err |-> NoErr]

\* swarmPort: the host port bound to 2375/tcp, or ErrPrimaryNodeNotBound.
swarmPort(ports) ==
    IF ~(\E b \in ports : b.port = "2375/tcp")
      THEN [port |-> "", err |-> ErrPrimaryNodeNotBound]
    ELSE LET boundsPorts == (CHOOSE b \in ports : b.port = "2375/tcp").bindings IN
         IF Len(boundsPorts) = 0
           THEN [port |-> "", err |-> ErrPrimaryNodeNotBound]
           ELSE [port |-> boundsPorts[1].HostPort, err |-> NoErr]

RECURSIVE countNodesAnyState(_)
\* countNodesPerRole without the test of the node's state.
countNodesAnyState(l) ==
    IF l = <<>> THEN [managers |-> 0, workers |-> 0]
    ELSE LET rest == countNodesAnyState(Tail(l))
             node == Head(l) IN
         IF node.Role = NodeRoleManager
           THEN [managers |-> rest.managers + 1, workers |-> rest.workers]
         ELSE IF node.Role = NodeRoleWorker
           THEN [managers |-> rest.managers, workers |-> rest.workers + 1]
         ELSE rest

RECURSIVE countNodesPerRole(_)
\* countNodesPerRole: the ready managers and the ready workers of a listing.
countNodesPerRole(l) ==
    IF l = <<>> THEN [managers |-> 0, workers |-> 0]
    ELSE LET rest == countNodesPerRole(Tail(l))
             node == Head(l) IN
         IF node.State # NodeStateReady THEN rest
         ELSE IF node.Role = NodeRoleManager
           THEN [managers |-> rest.managers + 1, workers |-> rest.workers]
         ELSE IF node.Role = NodeRoleWorker
           THEN [managers |-> rest.managers, workers |-> rest.workers + 1]
         ELSE rest

\* ctx.Done() is readable.
ctxDone == ctxErr # NoErr

\* A call given a context that is already done fails; otherwise the runtime decides.
CallOutcomes(done) == IF done THEN {FALSE} ELSE BOOLEAN

\* fmt.Errorf("<phase>: %v", err)
Errorf(phase, err) == phase \o ": " \o err

NilCluster == [nil |-> TRUE]

\* A return that hands out the cluster value next to the error.
FailWithPartialResult(msg) ==
    /\ pc' = "returned"
    /\ ret' = [cluster |-> [nil |-> FALSE, Name |-> params.ClusterName], err |-> msg]

\* `return nil, err` of CreateCluster.
Fail(msg) ==
    /\ pc' = "returned"
    /\ ret' = [cluster |-> NilCluster, err |-> msg]

NoRC == [total |-> 0, role |-> "", nameGen |-> ZeroGen,
         cConfig |-> [Hostname |-> "", Image |-> "", Labels |-> [clusterNameLabel |-> "", clusterRoleLabel |-> ""]],
         tasks |-> <<>>, groupCtxDone |-> FALSE, err |-> NoErr, cIDs |-> <<>>]

NoJoins == [tasks |-> <<>>, err |-> NoErr]

NoTokens == [JoinTokens |-> [Manager |-> "", Worker |-> ""]]

\* A readiness poller's ticker and probes: tick is a value pending in ticker.C,
\* last the outcome of the latest probe, late the number of probes issued once
\* the context was done, extra the number of probes issued after a probe that
\* met the exit condition.
NoPoll == [tick |-> FALSE, last |-> "none", late |-> 0, extra |-> 0]

\* time.NewTicker(retryTimeout): nothing is pending in ticker.C yet.
NewTicker == NoPoll

\* defer ticker.Stop()
TickerStop(p) == [p EXCEPT !.tick = FALSE]

Saturate(n, max) == IF n < max THEN n + 1 ELSE max

\* A probe consumes the pending tick and records its outcome.
Probed(outcome) ==
    [tick  |-> FALSE,
     last  |-> outcome,
     late  |-> IF ctxDone THEN Saturate(poll.late, MaxLate) ELSE poll.late,
     extra |-> IF poll.last \in {"pong", "match"} THEN Saturate(poll.extra, 1)
               ELSE poll.extra]

\* No call of PushImage: its position, the ImageSave calls made, the two
\* temporary files, the listed containers, the copy and the load tasks, the
\* containers that received the archive, those the load command was sent to,
\* the first error of the running group and the error returned.
NoPush ==
    [pc |-> "off", saves |-> 0, imgsFile |-> FALSE, tarFile |-> FALSE, containers |-> <<>>,
     copies |-> <<>>, loads |-> <<>>, copied |-> {}, loadCalls |-> {}, err |-> NoErr,
     ret |-> NoErr]

\* The zero value of CreateClusterParams.
ZeroParams ==
    [ClusterName |-> "", NetworkName |-> "", NetworkSubnet |-> "", Managers |-> 0,
     Workers |-> 0, ImageName |-> "", PullImage |-> FALSE]

\* No run of the create command: its position, its flags, the records of
\* the store, the calls of CreateCluster it made and its exit status.
NoCli == [pc |-> "off", flags |-> ZeroParams, store |-> {}, calls |-> 0, exit |-> 0]

Init ==
    /\ params \in ParamsSpace
    /\ ctxErr = NoErr
    /\ pc = "validate"
    /\ imageExist = FALSE
    /\ pull = "none"
    /\ networks = {}
    /\ managerNameGenerator = ZeroGen
    /\ workerNameGenerator = ZeroGen
    /\ containers = <<>>
    /\ primaryNodeCID = ""
    /\ swarmPortV = ""
    /\ rc = NoRC
    /\ managerNodeCIDs = <<>>
    /\ workerNodeCIDs = <<>>
    /\ swarm = [pinged |-> FALSE, initCalls |-> 0, inspectCalls |-> 0,
                initialized |-> FALSE, ListenAddr |-> ""]
    /\ swarmInfo = NoTokens
    /\ joins = NoJoins
    /\ nodes = <<>>
    /\ ret = [cluster |-> NilCluster, err |-> NoErr]
    /\ poll = NoPoll
    /\ push = NoPush
    /\ cli = NoCli

\* The caller cancels the context, or its deadline passes.
CtxCancel ==
    /\ pc # "returned"
    /\ ~ctxDone
    /\ ctxErr' \in {Canceled, DeadlineExceeded}
    /\ UNCHANGED <<params, pc, imageExist, pull, networks, managerNameGenerator,
                   workerNameGenerator, containers, primaryNodeCID, swarmPortV, rc,
                   managerNodeCIDs, workerNodeCIDs, swarm, swarmInfo, joins, nodes, ret>>
    /\ UNCHANGED <<poll, push, cli>>

\* CreateCluster, lines 101-108: validation, then the host client.
Validate ==
    /\ pc = "validate"
    /\ IF validate(params) # NoErr
         THEN Fail(Errorf("invalid configuration", validate(params)))
         ELSE \E ok \in BOOLEAN :
                IF ok THEN pc' = "image" /\ UNCHANGED ret
                ELSE Fail(Errorf("unable to create docker client", "client"))
    /\ UNCHANGED <<params, ctxErr, imageExist, pull, networks, managerNameGenerator,
                   workerNameGenerator, containers, primaryNodeCID, swarmPortV, rc,
                   managerNodeCIDs, workerNodeCIDs, swarm, swarmInfo, joins, nodes>>
    /\ UNCHANGED <<poll, push, cli>>

\* CreateCluster, lines 110-116: the local image query, then the pull when
\* it is forced or the image was not found.
ImageCheck ==
    /\ pc = "image"
    /\ \E listOK \in CallOutcomes(ctxDone), imageList \in {<<>>, <<imageName(params)>>} :
         /\ imageExist' = imageAlreadyExist(listOK, imageList)
         /\ IF params.PullImage \/ ~imageExist'
              THEN \E ok \in CallOutcomes(ctxDone) :
                     IF ok THEN pull' = "open" /\ pc' = "drain" /\ UNCHANGED ret
                     ELSE /\ Fail(Errorf("unable to pull the image", "pull"))
                          /\ UNCHANGED pull
              ELSE pc' = "network" /\ UNCHANGED <<pull, ret>>
    /\ UNCHANGED <<params, ctxErr, networks, managerNameGenerator,
                   workerNameGenerator, containers, primaryNodeCID, swarmPortV, rc,
                   managerNodeCIDs, workerNodeCIDs, swarm, swarmInfo, joins, nodes>>
    /\ UNCHANGED <<poll, push, cli>>

\* CreateCluster, lines 117-121: the pull stream is read to its end.
ImageDrain ==
    /\ pc = "drain"
    /\ \E ok \in CallOutcomes(ctxDone) :
         IF ok THEN pull' = "drained" /\ pc' = "network" /\ UNCHANGED ret
         ELSE Fail(Errorf("unable to pull the image", "read")) /\ UNCHANGED pull
    /\ UNCHANGED <<params, ctxErr, imageExist, networks, managerNameGenerator,
                   workerNameGenerator, containers, primaryNodeCID, swarmPortV, rc,
                   managerNodeCIDs, workerNodeCIDs, swarm, swarmInfo, joins, nodes>>
    /\ UNCHANGED <<poll, push, cli>>

\* An IPAM configuration built whether or not a subnet is asked for.
ipamOfAlways(n) == <<[Subnet |-> n.NetworkSubnet]>>

\* The IPAM configuration CreateCluster asks for, lines 124-131.
ipamOf(n) == IF n.NetworkSubnet # "" THEN <<[Subnet |-> n.NetworkSubnet]>> ELSE <<>>

NetworkID(name) == "netid:" \o name

\* CreateCluster, lines 124-149: the cluster network, then the port specs.
NetworkCreate ==
    /\ pc = "network"
    /\ \E ok \in CallOutcomes(ctxDone) :
         IF ok
           THEN /\ networks' = networks \cup
                      {[Name |-> params.NetworkName, ID |-> NetworkID(params.NetworkName),
                        IPAM |-> ipamOf(params),
                        Labels |-> [clusterNameLabel |-> params.ClusterName]]}
                /\ \E portsOK \in BOOLEAN :
                     IF portsOK THEN pc' = "primary_create" /\ UNCHANGED ret
                     ELSE Fail(Errorf("unable to define port bindings", "ports"))
           ELSE /\ Fail(Errorf("unable to create cluster network", "network"))
                /\ UNCHANGED networks
    /\ UNCHANGED <<params, ctxErr, imageExist, pull, managerNameGenerator,
                   workerNameGenerator, containers, primaryNodeCID, swarmPortV, rc,
                   managerNodeCIDs, workerNodeCIDs, swarm, swarmInfo, joins, nodes>>
    /\ UNCHANGED <<poll, push, cli>>

\* The runtime's record of a container it has just created.
NewContainer(name, cConfig, nConfig) ==
    [ID |-> ContainerID(name), Hostname |-> cConfig.Hostname, Image |-> cConfig.Image,
     Labels |-> cConfig.Labels, Network |-> nConfig, State |-> "created"]

\* The host's daemon refuses to create a container under a name in use.
CreateOutcomes(done, name) ==
    IF name \in DOMAIN containers THEN {FALSE} ELSE CallOutcomes(done)

\* CreateCluster, lines 151-173, with runContainer's ContainerCreate: the two
\* generators, the primary's name, and the creation of the primary.
PrimaryCreate ==
    /\ pc = "primary_create"
    /\ LET gen == generateName([pattern |-> params.ClusterName \o "-manager-", index |-> 0])
           primaryNodeName == gen.v IN
         /\ managerNameGenerator' = gen.g
         /\ workerNameGenerator' = [pattern |-> params.ClusterName \o "-worker-", index |-> 0]
         /\ \E ok \in CreateOutcomes(ctxDone, primaryNodeName) :
              IF ok
                THEN /\ containers' = containers @@
                           (primaryNodeName :>
                              NewContainer(primaryNodeName,
                                  [Hostname |-> primaryNodeName, Image |-> imageName(params),
                                   Labels |-> [clusterNameLabel |-> params.ClusterName,
                                               clusterRoleLabel |-> primaryNode]],
                                  networkConfig(params, NetworkID(params.NetworkName))))
                     /\ pc' = "primary_start"
                     /\ UNCHANGED ret
                ELSE /\ Fail(Errorf("unable to create the primary node", "create"))
                     /\ UNCHANGED containers
    /\ UNCHANGED <<params, ctxErr, imageExist, pull, networks, primaryNodeCID, swarmPortV, rc,
                   managerNodeCIDs, workerNodeCIDs, swarm, swarmInfo, joins, nodes>>
    /\ UNCHANGED <<poll, push, cli>>

\* The name of the container the primary was created under.
PrimaryName == Sprintf(params.ClusterName \o "-manager-", 0)

\* runContainer's ContainerStart for the primary, lines 418-421 and 174-176.
PrimaryStart ==
    /\ pc = "primary_start"
    /\ \E ok \in CallOutcomes(ctxDone) :
         IF ok
           THEN /\ containers' = [containers EXCEPT ![PrimaryName].State = "started"]
                /\ primaryNodeCID' = containers[PrimaryName].ID
                /\ pc' = "inspect"
                /\ UNCHANGED ret
           ELSE /\ Fail(Errorf("unable to create the primary node", "start"))
                /\ UNCHANGED <<containers, primaryNodeCID>>
    /\ UNCHANGED <<params, ctxErr, imageExist, pull, networks, managerNameGenerator,
                   workerNameGenerator, swarmPortV, rc,
                   managerNodeCIDs, workerNodeCIDs, swarm, swarmInfo, joins, nodes>>
    /\ UNCHANGED <<poll, push, cli>>

\* CreateCluster, lines 178-191: inspection of the primary, its control
\* port, and the host part of the daemon's address.
Inspect ==
    /\ pc = "inspect"
    /\ \E ok \in CallOutcomes(ctxDone), ports \in PortMaps, hostOK \in BOOLEAN :
         IF ~ok
           THEN /\ Fail(Errorf("unable to get the primary node informations", "inspect"))
                /\ UNCHANGED swarmPortV
         ELSE IF swarmPort(ports).err # NoErr
           THEN /\ Fail(Errorf("unable to get the remote docker daemon port", swarmPort(ports).err))
                /\ UNCHANGED swarmPortV
         ELSE /\ swarmPortV' = swarmPort(ports).port
              /\ IF hostOK THEN pc' = "managers" /\ UNCHANGED ret
                 ELSE Fail(Errorf("unable to get the remote docker daemon host", "url"))
    /\ UNCHANGED <<params, ctxErr, imageExist, pull, networks, managerNameGenerator,
                   workerNameGenerator, containers, primaryNodeCID, rc,
                   managerNodeCIDs, workerNodeCIDs, swarm, swarmInfo, joins, nodes>>
    /\ UNCHANGED <<poll, push, cli>>

\* The call of runContainers with the primary counted among the managers to run.
RunContainersCallAllManagers ==
    /\ pc \in {"managers", "workers"}
    /\ rc' = [total |-> IF pc = "managers" THEN params.Managers ELSE params.Workers,
              role |-> IF pc = "managers" THEN managerNode ELSE workerNode,
              nameGen |-> IF pc = "managers" THEN managerNameGenerator ELSE workerNameGenerator,
              cConfig |-> [Hostname |-> "", Image |-> imageName(params),
                           Labels |-> [clusterNameLabel |-> params.ClusterName,
                                       clusterRoleLabel |->
                                          IF pc = "managers" THEN managerNode ELSE workerNode]],
              tasks |-> <<>>, groupCtxDone |-> FALSE, err |-> NoErr, cIDs |-> <<>>]
    /\ pc' = IF pc = "managers" THEN "managers_run" ELSE "workers_run"
    /\ UNCHANGED <<params, ctxErr, imageExist, pull, networks, managerNameGenerator,
                   workerNameGenerator, containers, primaryNodeCID, swarmPortV,
                   managerNodeCIDs, workerNodeCIDs, swarm, swarmInfo, joins, nodes, ret>>
    /\ UNCHANGED <<poll, push, cli>>

\* The call of runContainers for a pool, lines 193-207 and 212-226, up to
\* the creation of the group and of the channel, lines 425-426.
RunContainersCall ==
    /\ pc \in {"managers", "workers"}
    /\ rc' = [total |-> IF pc = "managers" THEN managersToRun(params) ELSE params.Workers,
              role |-> IF pc = "managers" THEN managerNode ELSE workerNode,
              nameGen |-> IF pc = "managers" THEN managerNameGenerator ELSE workerNameGenerator,
              cConfig |-> [Hostname |-> "", Image |-> imageName(params),
                           Labels |-> [clusterNameLabel |-> params.ClusterName,
                                       clusterRoleLabel |->
                                          IF pc = "managers" THEN managerNode ELSE workerNode]],
              tasks |-> <<>>, groupCtxDone |-> FALSE, err |-> NoErr, cIDs |-> <<>>]
    /\ pc' = IF pc = "managers" THEN "managers_run" ELSE "workers_run"
    /\ UNCHANGED <<params, ctxErr, imageExist, pull, networks, managerNameGenerator,
                   workerNameGenerator, containers, primaryNodeCID, swarmPortV,
                   managerNodeCIDs, workerNodeCIDs, swarm, swarmInfo, joins, nodes, ret>>
    /\ UNCHANGED <<poll, push, cli>>

InRunContainers == pc \in {"managers_run", "workers_run"}

\* runContainers, lines 428-430: one turn of the loop names a task and starts it.
SpawnTask ==
    /\ InRunContainers
    /\ Len(rc.tasks) < rc.total
    /\ LET gen == generateName(rc.nameGen) IN
         rc' = [rc EXCEPT !.nameGen = gen.g,
                          !.tasks = Append(@, [cName |-> gen.v, pc |-> "hostname"])]
    /\ UNCHANGED <<params, ctxErr, pc, imageExist, pull, networks, managerNameGenerator,
                   workerNameGenerator, containers, primaryNodeCID, swarmPortV,
                   managerNodeCIDs, workerNodeCIDs, swarm, swarmInfo, joins, nodes, ret>>
    /\ UNCHANGED <<poll, push, cli>>

\* The context the tasks of runContainers run under is done.
groupDone == ctxDone \/ rc.groupCtxDone

\* A group that keeps the error of the task that failed last.
TaskFailedKeepLast(i, err) ==
    [rc EXCEPT !.tasks[i].pc = "failed", !.err = err, !.groupCtxDone = TRUE]

\* A task of the group returns an error: the first one is kept, and the
\* group's context is cancelled.
TaskFailed(i, err) ==
    [rc EXCEPT !.tasks[i].pc = "failed",
               !.err = IF @ = NoErr THEN err ELSE @,
               !.groupCtxDone = TRUE]

\* runContainers, line 431: the task writes its name into the shared cConfig.
TaskHostname(i) ==
    /\ InRunContainers
    /\ i \in DOMAIN rc.tasks
    /\ rc.tasks[i].pc = "hostname"
    /\ rc' = [rc EXCEPT !.cConfig.Hostname = rc.tasks[i].cName, !.tasks[i].pc = "create"]
    /\ UNCHANGED <<params, ctxErr, pc, imageExist, pull, networks, managerNameGenerator,
                   workerNameGenerator, containers, primaryNodeCID, swarmPortV,
                   managerNodeCIDs, workerNodeCIDs, swarm, swarmInfo, joins, nodes, ret>>
    /\ UNCHANGED <<poll, push, cli>>

\* runContainers, line 432, and runContainer, lines 407-416: the task copies
\* cConfig as it stands and creates its container.
TaskCreate(i) ==
    /\ InRunContainers
    /\ i \in DOMAIN rc.tasks
    /\ rc.tasks[i].pc = "create"
    /\ LET cName == rc.tasks[i].cName IN
       \E ok \in CreateOutcomes(groupDone, cName) :
         IF ok
           THEN /\ containers' = containers @@
                      (cName :> NewContainer(cName, rc.cConfig,
                                    networkConfig(params, NetworkID(params.NetworkName))))
                /\ rc' = [rc EXCEPT !.tasks[i].pc = "start"]
           ELSE /\ rc' = TaskFailed(i, "create " \o cName)
                /\ UNCHANGED containers
    /\ UNCHANGED <<params, ctxErr, pc, imageExist, pull, networks, managerNameGenerator,
                   workerNameGenerator, primaryNodeCID, swarmPortV,
                   managerNodeCIDs, workerNodeCIDs, swarm, swarmInfo, joins, nodes, ret>>
    /\ UNCHANGED <<poll, push, cli>>

\* runContainer, lines 418-421: the task starts the container it created.
TaskStart(i) ==
    /\ InRunContainers
    /\ i \in DOMAIN rc.tasks
    /\ rc.tasks[i].pc = "start"
    /\ LET cName == rc.tasks[i].cName IN
       \E ok \in CallOutcomes(groupDone) :
         IF ok
           THEN /\ containers' = [containers EXCEPT ![cName].State = "started"]
                /\ rc' = [rc EXCEPT !.tasks[i].pc = "send"]
           ELSE /\ rc' = TaskFailed(i, "start " \o cName)
                /\ UNCHANGED containers
    /\ UNCHANGED <<params, ctxErr, pc, imageExist, pull, networks, managerNameGenerator,
                   workerNameGenerator, primaryNodeCID, swarmPortV,
                   managerNodeCIDs, workerNodeCIDs, swarm, swarmInfo, joins, nodes, ret>>
    /\ UNCHANGED <<poll, push, cli>>

\* The identifier sent on a channel without a buffer: the send waits for a
\* receiver, and the channel is read only after the wait of the group.
TaskSendUnbuffered(i) ==
    /\ InRunContainers
    /\ i \in DOMAIN rc.tasks
    /\ rc.tasks[i].pc = "send"
    /\ Len(rc.cIDs) < 0
    /\ rc' = [rc EXCEPT !.cIDs = Append(@, containers[rc.tasks[i].cName].ID),
                        !.tasks[i].pc = "done"]
    /\ UNCHANGED <<params, ctxErr, pc, imageExist, pull, networks, managerNameGenerator,
                   workerNameGenerator, containers, primaryNodeCID, swarmPortV,
                   managerNodeCIDs, workerNodeCIDs, swarm, swarmInfo, joins, nodes, ret>>
    /\ UNCHANGED <<poll, push, cli>>

\* runContainers, lines 437-438: the identifier goes to the channel, whose
\* buffer holds totalToCreate values.
TaskSend(i) ==
    /\ InRunContainers
    /\ i \in DOMAIN rc.tasks
    /\ rc.tasks[i].pc = "send"
    /\ Len(rc.cIDs) < rc.total
    /\ rc' = [rc EXCEPT !.cIDs = Append(@, containers[rc.tasks[i].cName].ID),
                        !.tasks[i].pc = "done"]
    /\ UNCHANGED <<params, ctxErr, pc, imageExist, pull, networks, managerNameGenerator,
                   workerNameGenerator, containers, primaryNodeCID, swarmPortV,
                   managerNodeCIDs, workerNodeCIDs, swarm, swarmInfo, joins, nodes, ret>>
    /\ UNCHANGED <<poll, push, cli>>

\* runContainers removing, when a task failed, the containers its tasks created.
RunContainersWaitWithRollback ==
    /\ InRunContainers
    /\ Len(rc.tasks) >= rc.total
    /\ \A i \in DOMAIN rc.tasks : rc.tasks[i].pc \in {"done", "failed"}
    /\ IF rc.err # NoErr
         THEN /\ rc' = [rc EXCEPT !.groupCtxDone = TRUE]
              /\ containers' =
                   [n \in DOMAIN containers \ {rc.tasks[i].cName : i \in DOMAIN rc.tasks}
                      |-> containers[n]]
              /\ Fail(Errorf(IF pc = "managers_run" THEN "unable to create manager nodes"
                             ELSE "unable to create worker nodes", rc.err))
              /\ UNCHANGED <<managerNodeCIDs, workerNodeCIDs>>
         ELSE /\ rc' = NoRC
              /\ IF pc = "managers_run"
                   THEN managerNodeCIDs' = rc.cIDs /\ UNCHANGED workerNodeCIDs
                   ELSE workerNodeCIDs' = rc.cIDs /\ UNCHANGED managerNodeCIDs
              /\ pc' = IF pc = "managers_run" THEN "workers" ELSE "swarm_client"
              /\ UNCHANGED <<ret, containers>>
    /\ UNCHANGED <<params, ctxErr, imageExist, pull, networks, managerNameGenerator,
                   workerNameGenerator, primaryNodeCID, swarmPortV,
                   swarm, swarmInfo, joins, nodes>>
    /\ UNCHANGED <<poll, push, cli>>

\* runContainers, lines 442-454, and its caller, lines 208-210 and 227-229:
\* every task has returned; the first error aborts, else the channel is read
\* to its end and the call's frame is gone.
RunContainersWait ==
    /\ InRunContainers
    /\ Len(rc.tasks) >= rc.total
    /\ \A i \in DOMAIN rc.tasks : rc.tasks[i].pc \in {"done", "failed"}
    /\ IF rc.err # NoErr
         THEN /\ rc' = [rc EXCEPT !.groupCtxDone = TRUE]
              /\ Fail(Errorf(IF pc = "managers_run" THEN "unable to create manager nodes"
                             ELSE "unable to create worker nodes", rc.err))
              /\ UNCHANGED <<managerNodeCIDs, workerNodeCIDs>>
         ELSE /\ rc' = NoRC
              /\ IF pc = "managers_run"
                   THEN managerNodeCIDs' = rc.cIDs /\ UNCHANGED workerNodeCIDs
                   ELSE workerNodeCIDs' = rc.cIDs /\ UNCHANGED managerNodeCIDs
              /\ pc' = IF pc = "managers_run" THEN "workers" ELSE "swarm_client"
              /\ UNCHANGED ret
    /\ UNCHANGED <<params, ctxErr, imageExist, pull, networks, managerNameGenerator,
                   workerNameGenerator, containers, primaryNodeCID, swarmPortV,
                   swarm, swarmInfo, joins, nodes>>
    /\ UNCHANGED <<poll, push, cli>>

\* The swarm client used at once, without the wait for the daemon.
SwarmClientSkippingWait ==
    /\ pc = "swarm_client"
    /\ \E ok \in BOOLEAN :
         IF ok THEN pc' = "swarm_init" /\ UNCHANGED ret
         ELSE Fail(Errorf("unable to create swarm client", "client"))
    /\ UNCHANGED <<params, ctxErr, imageExist, pull, networks, managerNameGenerator,
                   workerNameGenerator, containers, primaryNodeCID, swarmPortV, rc,
                   managerNodeCIDs, workerNodeCIDs, swarm, swarmInfo, joins, nodes>>
    /\ UNCHANGED <<poll, push, cli>>

\* CreateCluster, lines 231-237: the client of the primary's daemon.
SwarmClient ==
    /\ pc = "swarm_client"
    /\ \E ok \in BOOLEAN :
         IF ok THEN pc' = "daemon_wait" /\ poll' = NewTicker /\ UNCHANGED ret
         ELSE Fail(Errorf("unable to create swarm client", "client")) /\ UNCHANGED poll
    /\ UNCHANGED <<params, ctxErr, imageExist, pull, networks, managerNameGenerator,
                   workerNameGenerator, containers, primaryNodeCID, swarmPortV, rc,
                   managerNodeCIDs, workerNodeCIDs, swarm, swarmInfo, joins, nodes>>
    /\ UNCHANGED <<push, cli>>

\* waitDaemonReady taking any answer of the ping, an error too, for readiness.
DaemonTickIgnoringError ==
    /\ pc = "daemon_wait"
    /\ poll.tick
    /\ \E ok \in CallOutcomes(ctxDone) :
         IF ok THEN /\ swarm' = [swarm EXCEPT !.pinged = TRUE]
                    /\ pc' = "swarm_init"
                    /\ poll' = Probed("pong")
         ELSE /\ UNCHANGED swarm
              /\ pc' = "swarm_init"
              /\ poll' = Probed("error")
    /\ UNCHANGED <<params, ctxErr, imageExist, pull, networks, managerNameGenerator,
                   workerNameGenerator, containers, primaryNodeCID, swarmPortV, rc,
                   managerNodeCIDs, workerNodeCIDs, swarmInfo, joins, nodes, ret>>
    /\ UNCHANGED <<push, cli>>

\* waitDaemonReady, lines 337-343: a tick pings the primary's daemon; a
\* failed ping is dropped and the loop goes on.
DaemonTick ==
    /\ pc = "daemon_wait"
    /\ poll.tick
    /\ \E ok \in CallOutcomes(ctxDone) :
         IF ok THEN /\ swarm' = [swarm EXCEPT !.pinged = TRUE]
                    /\ pc' = "swarm_init"
                    /\ poll' = Probed("pong")
         ELSE /\ UNCHANGED <<swarm, pc>>
              /\ poll' = Probed("error")
    /\ UNCHANGED <<params, ctxErr, imageExist, pull, networks, managerNameGenerator,
                   workerNameGenerator, containers, primaryNodeCID, swarmPortV, rc,
                   managerNodeCIDs, workerNodeCIDs, swarmInfo, joins, nodes, ret>>
    /\ UNCHANGED <<push, cli>>

\* waitDaemonReady returning nil when the context is done.
DaemonCtxDoneSwallowed ==
    /\ pc = "daemon_wait"
    /\ ctxDone
    /\ pc' = "swarm_init"
    /\ poll' = TickerStop(poll)
    /\ UNCHANGED <<params, ctxErr, imageExist, pull, networks, managerNameGenerator,
                   workerNameGenerator, containers, primaryNodeCID, swarmPortV, rc,
                   managerNodeCIDs, workerNodeCIDs, swarm, swarmInfo, joins, nodes, ret>>
    /\ UNCHANGED <<push, cli>>

\* waitDaemonReady, lines 344-345, and its caller, lines 239-241.
DaemonCtxDone ==
    /\ pc = "daemon_wait"
    /\ ctxDone
    /\ Fail(Errorf("unable to connect to the swarm cluster", ctxErr))
    /\ poll' = TickerStop(poll)
    /\ UNCHANGED <<params, ctxErr, imageExist, pull, networks, managerNameGenerator,
                   workerNameGenerator, containers, primaryNodeCID, swarmPortV, rc,
                   managerNodeCIDs, workerNodeCIDs, swarm, swarmInfo, joins, nodes>>
    /\ UNCHANGED <<push, cli>>

\* CreateCluster, lines 243-245.
SwarmInit ==
    /\ pc = "swarm_init"
    /\ \E ok \in CallOutcomes(ctxDone) :
         IF ok
           THEN /\ swarm' = [swarm EXCEPT !.initCalls = @ + 1, !.initialized = TRUE,
                                          !.ListenAddr = defaultSwarmListenAddr]
                /\ pc' = "swarm_inspect"
                /\ UNCHANGED ret
           ELSE /\ swarm' = [swarm EXCEPT !.initCalls = @ + 1]
                /\ Fail(Errorf("unable to init the swarm", "init"))
    /\ UNCHANGED <<params, ctxErr, imageExist, pull, networks, managerNameGenerator,
                   workerNameGenerator, containers, primaryNodeCID, swarmPortV, rc,
                   managerNodeCIDs, workerNodeCIDs, swarmInfo, joins, nodes>>
    /\ UNCHANGED <<poll, push, cli>>

\* The join tokens the primary's daemon hands out.
Tokens == [JoinTokens |-> [Manager |-> "SWMTKN-manager", Worker |-> "SWMTKN-worker"]]

\* CreateCluster, lines 247-250.
SwarmInspect ==
    /\ pc = "swarm_inspect"
    /\ swarm' = [swarm EXCEPT !.inspectCalls = @ + 1]
    /\ \E ok \in CallOutcomes(ctxDone) :
         IF ok THEN swarmInfo' = Tokens /\ pc' = "join" /\ UNCHANGED ret
         ELSE Fail(Errorf("unable to collect join tokens", "inspect")) /\ UNCHANGED swarmInfo
    /\ UNCHANGED <<params, ctxErr, imageExist, pull, networks, managerNameGenerator,
                   workerNameGenerator, containers, primaryNodeCID, swarmPortV, rc,
                   managerNodeCIDs, workerNodeCIDs, joins, nodes>>
    /\ UNCHANGED <<poll, push, cli>>

\* The join command of lines 261-268 and 280-287.
JoinCmd(token, managerAddr) ==
    <<"docker", "swarm", "join", "--token", token, managerAddr>>

\* One task of the join fan-out per identifier of a pool.
JoinTasksOf(cids, token, managerAddr) ==
    [i \in DOMAIN cids |-> [cid |-> cids[i], cmd |-> JoinCmd(token, managerAddr), pc |-> "create"]]

\* The join fan-out with the manager token handed to the workers too.
JoinSpawnOneToken ==
    /\ pc = "join"
    /\ LET managerAddr == JoinHostPort(ShortID(primaryNodeCID), "2377") IN
         joins' = [tasks |-> JoinTasksOf(managerNodeCIDs, swarmInfo.JoinTokens.Manager, managerAddr)
                             \o JoinTasksOf(workerNodeCIDs, swarmInfo.JoinTokens.Manager, managerAddr),
                   err |-> NoErr]
    /\ pc' = "join_run"
    /\ UNCHANGED <<params, ctxErr, imageExist, pull, networks, managerNameGenerator,
                   workerNameGenerator, containers, primaryNodeCID, swarmPortV, rc,
                   managerNodeCIDs, workerNodeCIDs, swarm, swarmInfo, nodes, ret>>
    /\ UNCHANGED <<poll, push, cli>>

\* CreateCluster, lines 252-290: the group, the primary's address, and one
\* task per other manager, then one per worker.
JoinSpawn ==
    /\ pc = "join"
    /\ LET managerAddr == JoinHostPort(ShortID(primaryNodeCID), "2377") IN
         joins' = [tasks |-> JoinTasksOf(managerNodeCIDs, swarmInfo.JoinTokens.Manager, managerAddr)
                             \o JoinTasksOf(workerNodeCIDs, swarmInfo.JoinTokens.Worker, managerAddr),
                   err |-> NoErr]
    /\ pc' = "join_run"
    /\ UNCHANGED <<params, ctxErr, imageExist, pull, networks, managerNameGenerator,
                   workerNameGenerator, containers, primaryNodeCID, swarmPortV, rc,
                   managerNodeCIDs, workerNodeCIDs, swarm, swarmInfo, nodes, ret>>
    /\ UNCHANGED <<poll, push, cli>>

\* The context the join tasks pass to execContainer, lines 257 and 275: the
\* group of line 252 is a plain errgroup.Group and derives no context, so the
\* tasks hold the caller's.
joinCtxDone == ctxDone

\* A join task returns an error: the group keeps the first one.
JoinFailed(i, err) ==
    [joins EXCEPT !.tasks[i].pc = "failed", !.err = IF @ = NoErr THEN err ELSE @]

\* execContainer, lines 398-401, in a join task.
JoinExecCreate(i) ==
    /\ pc = "join_run"
    /\ i \in DOMAIN joins.tasks
    /\ joins.tasks[i].pc = "create"
    /\ \E ok \in CallOutcomes(joinCtxDone) :
         joins' = IF ok THEN [joins EXCEPT !.tasks[i].pc = "start"]
                  ELSE JoinFailed(i, "exec create " \o joins.tasks[i].cid)
    /\ UNCHANGED <<params, ctxErr, pc, imageExist, pull, networks, managerNameGenerator,
                   workerNameGenerator, containers, primaryNodeCID, swarmPortV, rc,
                   managerNodeCIDs, workerNodeCIDs, swarm, swarmInfo, nodes, ret>>
    /\ UNCHANGED <<poll, push, cli>>

\* execContainer, line 403, in a join task.
JoinExecStart(i) ==
    /\ pc = "join_run"
    /\ i \in DOMAIN joins.tasks
    /\ joins.tasks[i].pc = "start"
    /\ \E ok \in CallOutcomes(joinCtxDone) :
         joins' = IF ok THEN [joins EXCEPT !.tasks[i].pc = "done"]
                  ELSE JoinFailed(i, "exec start " \o joins.tasks[i].cid)
    /\ UNCHANGED <<params, ctxErr, pc, imageExist, pull, networks, managerNameGenerator,
                   workerNameGenerator, containers, primaryNodeCID, swarmPortV, rc,
                   managerNodeCIDs, workerNodeCIDs, swarm, swarmInfo, nodes, ret>>
    /\ UNCHANGED <<poll, push, cli>>

\* The wait of the join group with its error dropped.
JoinWaitIgnoringError ==
    /\ pc = "join_run"
    /\ \A i \in DOMAIN joins.tasks : joins.tasks[i].pc \in {"done", "failed"}
    /\ pc' = "cluster_wait"
    /\ poll' = NewTicker
    /\ UNCHANGED <<params, ctxErr, imageExist, pull, networks, managerNameGenerator,
                   workerNameGenerator, containers, primaryNodeCID, swarmPortV, rc,
                   managerNodeCIDs, workerNodeCIDs, swarm, swarmInfo, joins, nodes, ret>>
    /\ UNCHANGED <<push, cli>>

\* CreateCluster, lines 292-294: errg.Wait().
JoinWait ==
    /\ pc = "join_run"
    /\ \A i \in DOMAIN joins.tasks : joins.tasks[i].pc \in {"done", "failed"}
    /\ IF joins.err # NoErr
         THEN Fail(Errorf("unable to build the cluster", joins.err)) /\ UNCHANGED poll
         ELSE pc' = "cluster_wait" /\ poll' = NewTicker /\ UNCHANGED ret
    /\ UNCHANGED <<params, ctxErr, imageExist, pull, networks, managerNameGenerator,
                   workerNameGenerator, containers, primaryNodeCID, swarmPortV, rc,
                   managerNodeCIDs, workerNodeCIDs, swarm, swarmInfo, joins, nodes>>
    /\ UNCHANGED <<push, cli>>

\* The value of lines 300-310.
ClusterOf(n) ==
    [nil |-> FALSE, Name |-> n.ClusterName,
     Cluster |-> [Host |-> "localhost", Port |-> swarmPortV],
     Host |-> [Host |-> "unix:///var/run/docker.sock"]]

\* What a listing of the nodes shows to an observer of the swarm: an error,
\* or whether the ready managers and the ready workers are as many as asked.
Observed(ok, listing) ==
    IF ~ok THEN "error"
    ELSE IF /\ Cardinality({i \in DOMAIN listing : /\ listing[i].Role = NodeRoleManager
                                                    /\ listing[i].State = NodeStateReady})
                 = params.Managers
            /\ Cardinality({i \in DOMAIN listing : /\ listing[i].Role = NodeRoleWorker
                                                    /\ listing[i].State = NodeStateReady})
                 = params.Workers
         THEN "match"
         ELSE "mismatch"

\* The ticker of a poller, lines 332 and 351, sends a tick on ticker.C every
\* 100 ms; the channel holds one tick, a tick that finds it full is dropped.
\* A poller whose context is done has a ready case in its select and a probe
\* made with a done context fails at once, so the poller acts before the next
\* tick is due: a tick that is pending when the context ends is the only one
\* the select can still draw.
TickFires ==
    /\ pc \in {"daemon_wait", "cluster_wait"}
    /\ ~poll.tick
    /\ ~ctxDone
    /\ poll' = [poll EXCEPT !.tick = TRUE]
    /\ UNCHANGED <<params, ctxErr, pc, imageExist, pull, networks, managerNameGenerator,
                   workerNameGenerator, containers, primaryNodeCID, swarmPortV, rc,
                   managerNodeCIDs, workerNodeCIDs, swarm, swarmInfo, joins, nodes, ret,
                   push, cli>>

\* waitClusterReady asking for the expected counts twice in a row.
ClusterTickTwice ==
    /\ pc = "cluster_wait"
    /\ poll.tick
    /\ \E ok \in CallOutcomes(ctxDone) :
         IF ~ok
           THEN /\ poll' = Probed(Observed(FALSE, <<>>))
                /\ UNCHANGED <<pc, nodes, ret>>
           ELSE \E listing \in Listings :
                  LET counts == countNodesPerRole(listing) IN
                  /\ poll' = Probed(Observed(TRUE, listing))
                  /\ IF counts.managers # params.Managers THEN UNCHANGED <<pc, nodes, ret>>
                     ELSE IF counts.workers # params.Workers THEN UNCHANGED <<pc, nodes, ret>>
                     ELSE IF poll.last # "match" THEN UNCHANGED <<pc, nodes, ret>>
                     ELSE /\ nodes' = listing
                          /\ pc' = "returned"
                          /\ ret' = [cluster |-> ClusterOf(params), err |-> NoErr]
    /\ UNCHANGED <<params, ctxErr, imageExist, pull, networks, managerNameGenerator,
                   workerNameGenerator, containers, primaryNodeCID, swarmPortV, rc,
                   managerNodeCIDs, workerNodeCIDs, swarm, swarmInfo, joins>>
    /\ UNCHANGED <<push, cli>>

\* waitClusterReady returning the error of a failed listing.
ClusterTickFatalError ==
    /\ pc = "cluster_wait"
    /\ poll.tick
    /\ \E ok \in CallOutcomes(ctxDone) :
         IF ~ok
           THEN /\ poll' = Probed(Observed(FALSE, <<>>))
                /\ Fail(Errorf("unable to check swarm cluste", "node list")) /\ UNCHANGED nodes
           ELSE \E listing \in Listings :
                  LET counts == countNodesPerRole(listing) IN
                  /\ poll' = Probed(Observed(TRUE, listing))
                  /\ IF counts.managers # params.Managers THEN UNCHANGED <<pc, nodes, ret>>
                     ELSE IF counts.workers # params.Workers THEN UNCHANGED <<pc, nodes, ret>>
                     ELSE /\ nodes' = listing
                          /\ pc' = "returned"
                          /\ ret' = [cluster |-> ClusterOf(params), err |-> NoErr]
    /\ UNCHANGED <<params, ctxErr, imageExist, pull, networks, managerNameGenerator,
                   workerNameGenerator, containers, primaryNodeCID, swarmPortV, rc,
                   managerNodeCIDs, workerNodeCIDs, swarm, swarmInfo, joins>>
    /\ UNCHANGED <<push, cli>>

\* waitClusterReady, lines 356-372, and lines 296-311 of its caller: a tick
\* lists the nodes; a failed listing or other counts than the expected ones
\* go on with the loop, the expected counts end it and CreateCluster returns
\* the cluster.
ClusterTick ==
    /\ pc = "cluster_wait"
    /\ poll.tick
    /\ \E ok \in CallOutcomes(ctxDone) :
         IF ~ok
           THEN /\ poll' = Probed(Observed(FALSE, <<>>))
                /\ UNCHANGED <<pc, nodes, ret>>
           ELSE \E listing \in Listings :
                  LET counts == countNodesPerRole(listing) IN
                  /\ poll' = Probed(Observed(TRUE, listing))
                  /\ IF counts.managers # params.Managers THEN UNCHANGED <<pc, nodes, ret>>
                     ELSE IF counts.workers # params.Workers THEN UNCHANGED <<pc, nodes, ret>>
                     ELSE /\ nodes' = listing
                          /\ pc' = "returned"
                          /\ ret' = [cluster |-> ClusterOf(params), err |-> NoErr]
    /\ UNCHANGED <<params, ctxErr, imageExist, pull, networks, managerNameGenerator,
                   workerNameGenerator, containers, primaryNodeCID, swarmPortV, rc,
                   managerNodeCIDs, workerNodeCIDs, swarm, swarmInfo, joins>>
    /\ UNCHANGED <<push, cli>>

\* waitClusterReady returning nil when the context is done.
ClusterCtxDoneSwallowed ==
    /\ pc = "cluster_wait"
    /\ ctxDone
    /\ pc' = "returned"
    /\ ret' = [cluster |-> ClusterOf(params), err |-> NoErr]
    /\ poll' = TickerStop(poll)
    /\ UNCHANGED <<params, ctxErr, imageExist, pull, networks, managerNameGenerator,
                   workerNameGenerator, containers, primaryNodeCID, swarmPortV, rc,
                   managerNodeCIDs, workerNodeCIDs, swarm, swarmInfo, joins, nodes>>
    /\ UNCHANGED <<push, cli>>

\* waitClusterReady, lines 373-374, and its caller, lines 296-298.
ClusterCtxDone ==
    /\ pc = "cluster_wait"
    /\ ctxDone
    /\ Fail(Errorf("unable to check swarm cluste", ctxErr))
    /\ poll' = TickerStop(poll)
    /\ UNCHANGED <<params, ctxErr, imageExist, pull, networks, managerNameGenerator,
                   workerNameGenerator, containers, primaryNodeCID, swarmPortV, rc,
                   managerNodeCIDs, workerNodeCIDs, swarm, swarmInfo, joins, nodes>>
    /\ UNCHANGED <<push, cli>>

\* The nodes whose daemon a ping of waitDaemonReady has reached: the swarm
\* client, the only one pinged, addresses the primary (lines 231-241).
ProbedNodes == IF swarm.pinged THEN {primaryNodeCID} ELSE {}

RECURSIVE GenNames(_, _)
\* The first k names of a generator.
GenNames(g, k) ==
    IF k <= 0 THEN {} ELSE {generateName(g).v} \cup GenNames(generateName(g).g, k - 1)

\* The names a call for a cluster name draws from its two generators, lines
\* 151-153 and 428-429.
NamesOfCluster(c) ==
    GenNames([pattern |-> c \o "-manager-", index |-> 0], MaxCluster)
      \cup GenNames([pattern |-> c \o "-worker-", index |-> 0], MaxCluster)

\* The most tasks a fan-out of the model runs.
MaxTasks == MaxCluster

Next ==
    \/ CtxCancel
    \/ Validate
    \/ ImageCheck
    \/ ImageDrain
    \/ NetworkCreate
    \/ PrimaryCreate
    \/ PrimaryStart
    \/ Inspect
    \/ RunContainersCall
    \/ SpawnTask
    \/ \E i \in 1..MaxTasks : TaskHostname(i)
    \/ \E i \in 1..MaxTasks : TaskCreate(i)
    \/ \E i \in 1..MaxTasks : TaskStart(i)
    \/ \E i \in 1..MaxTasks : TaskSend(i)
    \/ RunContainersWait
    \/ SwarmClient
    \/ TickFires
    \/ DaemonTick
    \/ DaemonCtxDone
    \/ SwarmInit
    \/ SwarmInspect
    \/ JoinSpawn
    \/ \E i \in 1..MaxTasks : JoinExecCreate(i)
    \/ \E i \in 1..MaxTasks : JoinExecStart(i)
    \/ JoinWait
    \/ ClusterTick
    \/ ClusterCtxDone

Spec == Init /\ [][Next]_vars

\* The calls for the default node image on a network without a subnet: the
\* pollers read neither the image nor the subnet.
InitWait == Init /\ params.ImageName = "" /\ params.NetworkSubnet = "" /\ ~params.PullImage

\* The select of waitClusterReady, lines 356-375, takes a case that stays
\* ready: once the context is done the ctx.Done() case is ready at every
\* evaluation of the select and is drawn at the latest when no tick is pending.
SpecFair == InitWait /\ [][Next]_vars /\ WF_vars(ClusterCtxDone)

\* ------------------------------------------------------------ PushImage

\* The variables of a call of CreateCluster, which a call of PushImage and
\* the steps of the create command around the call leave alone.
coreVars == <<params, pc, imageExist, pull, networks, managerNameGenerator,
              workerNameGenerator, containers, primaryNodeCID, swarmPortV, rc,
              managerNodeCIDs, workerNodeCIDs, swarm, swarmInfo, joins, nodes, ret, poll>>

\* No call of CreateCluster is running or has run.
NoCreateCall ==
    /\ params = ZeroParams
    /\ pc = "idle"
    /\ imageExist = FALSE
    /\ pull = "none"
    /\ networks = {}
    /\ managerNameGenerator = ZeroGen
    /\ workerNameGenerator = ZeroGen
    /\ containers = <<>>
    /\ primaryNodeCID = ""
    /\ swarmPortV = ""
    /\ rc = NoRC
    /\ managerNodeCIDs = <<>>
    /\ workerNodeCIDs = <<>>
    /\ swarm = [pinged |-> FALSE, initCalls |-> 0, inspectCalls |-> 0,
                initialized |-> FALSE, ListenAddr |-> ""]
    /\ swarmInfo = NoTokens
    /\ joins = NoJoins
    /\ nodes = <<>>
    /\ ret = [cluster |-> NilCluster, err |-> NoErr]
    /\ poll = NoPoll

\* A call of PushImage on a cluster, under a live context.
InitPush ==
    /\ NoCreateCall
    /\ ctxErr = NoErr
    /\ push = [NoPush EXCEPT !.pc = "client"]
    /\ cli = NoCli

\* PushImage returns before line 34: nothing is deferred yet.
PushReturnEarly(e) == [push EXCEPT !.pc = "returned", !.ret = e]

\* PushImage returning without the removal of the archive.
PushReturnKeepingArchive(e) == [push EXCEPT !.pc = "returned", !.ret = e]

\* PushImage returns after line 34: the deferred os.Remove(archivePath) runs.
PushReturn(e) == [push EXCEPT !.pc = "returned", !.ret = e, !.tarFile = FALSE]

\* PushImage, lines 25-28.
PushClient ==
    /\ push.pc = "client"
    /\ \E ok \in BOOLEAN :
         push' = IF ok THEN [push EXCEPT !.pc = "prepare_save"]
                 ELSE PushReturnEarly(Errorf("unable to get host client", "client"))
    /\ UNCHANGED <<coreVars, ctxErr, cli>>

\* prepareArchive, lines 94-116, and PushImage, lines 30-33: the temporary
\* image file, ImageSave and the copy of its stream; the deferred function of
\* lines 99-102 removes the file when prepareArchive returns an error here.
PushPrepareSave ==
    /\ push.pc = "prepare_save"
    /\ \E tmp \in BOOLEAN, saved \in CallOutcomes(ctxDone), written \in BOOLEAN :
         push' =
           IF ~tmp
             THEN PushReturnEarly(Errorf("unable to prepare the archive",
                                         "unable to create the image file"))
           ELSE IF ~saved \/ ~written
             THEN [PushReturnEarly(Errorf("unable to prepare the archive",
                                          "unable to save the images to disk"))
                     EXCEPT !.saves = @ + 1]
           ELSE [push EXCEPT !.pc = "prepare_tar", !.saves = @ + 1, !.imgsFile = TRUE]
    /\ UNCHANGED <<coreVars, ctxErr, cli>>

\* prepareArchive, lines 118-152, and PushImage, lines 30-34: the archive is
\* a second temporary file, which an error after its creation leaves behind;
\* the image file is removed when prepareArchive returns.
PushPrepareTar ==
    /\ push.pc = "prepare_tar"
    /\ \E tmp \in BOOLEAN, written \in BOOLEAN :
         push' =
           IF ~tmp
             THEN [PushReturnEarly(Errorf("unable to prepare the archive",
                                          "unable to create the tar file"))
                     EXCEPT !.imgsFile = FALSE]
           ELSE IF ~written
             THEN [PushReturnEarly(Errorf("unable to prepare the archive",
                                          "unable to tar image files"))
                     EXCEPT !.imgsFile = FALSE, !.tarFile = TRUE]
           ELSE [push EXCEPT !.pc = "list", !.imgsFile = FALSE, !.tarFile = TRUE]
    /\ UNCHANGED <<coreVars, ctxErr, cli>>

\* The containers a listing of the cluster answers with.
PushListing(n) == [i \in 1..n |-> ContainerID(Sprintf("node-", i))]

\* One task per container, each at its first step.
TasksAt(cs, at) == [i \in DOMAIN cs |-> [cid |-> cs[i], pc |-> at]]

\* PushImage, lines 36-47: the containers of the cluster, then a group with
\* one copy task per container.
PushList ==
    /\ push.pc = "list"
    /\ \E ok \in CallOutcomes(ctxDone), n \in 0..MaxPush :
         push' = IF ok
                   THEN [push EXCEPT !.pc = "copy_run", !.containers = PushListing(n),
                                     !.copies = TasksAt(PushListing(n), "open"),
                                     !.err = NoErr]
                   ELSE PushReturn("unable to get container list " \o "list")
    /\ UNCHANGED <<coreVars, ctxErr, cli>>

\* A task of a group of PushImage returns an error: the group keeps the first.
PushFirstErr(e) == IF push.err = NoErr THEN e ELSE push.err

\* copyToContainer, lines 79-84: the task opens the archive.
PushCopyOpen(i) ==
    /\ push.pc = "copy_run"
    /\ i \in DOMAIN push.copies
    /\ push.copies[i].pc = "open"
    /\ \E ok \in (IF push.tarFile THEN BOOLEAN ELSE {FALSE}) :
         push' = IF ok THEN [push EXCEPT !.copies[i].pc = "copy"]
                 ELSE [push EXCEPT !.copies[i].pc = "failed",
                                   !.err = PushFirstErr("unable to open file to deploy")]
    /\ UNCHANGED <<coreVars, ctxErr, cli>>

\* copyToContainer, lines 86-90: the archive goes to the container.
PushCopy(i) ==
    /\ push.pc = "copy_run"
    /\ i \in DOMAIN push.copies
    /\ push.copies[i].pc = "copy"
    /\ \E ok \in CallOutcomes(ctxDone) :
         push' = IF ok THEN [push EXCEPT !.copies[i].pc = "done",
                                         !.copied = @ \cup {push.copies[i].cid}]
                 ELSE [push EXCEPT !.copies[i].pc = "failed",
                                   !.err = PushFirstErr("unable to copy the image to container "
                                                          \o push.copies[i].cid)]
    /\ UNCHANGED <<coreVars, ctxErr, cli>>

\* The wait of the copy group with its error dropped.
PushCopyWaitIgnoringError ==
    /\ push.pc = "copy_run"
    /\ \A i \in DOMAIN push.copies : push.copies[i].pc \in {"done", "failed"}
    /\ push' = [push EXCEPT !.pc = "load_run", !.err = NoErr,
                            !.loads = TasksAt(push.containers, "create")]
    /\ UNCHANGED <<coreVars, ctxErr, cli>>

\* PushImage, lines 49-69: errg.Wait() of the copy group, then a fresh group
\* with one load task per container.
PushCopyWait ==
    /\ push.pc = "copy_run"
    /\ \A i \in DOMAIN push.copies : push.copies[i].pc \in {"done", "failed"}
    /\ push' = IF push.err # NoErr
                 THEN PushReturn(Errorf("unable to deploy the image to host", push.err))
                 ELSE [push EXCEPT !.pc = "load_run", !.err = NoErr,
                                   !.loads = TasksAt(push.containers, "create")]
    /\ UNCHANGED <<coreVars, ctxErr, cli>>

\* execContainer, lines 398-401 of the core, in a load task: the exec of
\* `docker load -i imageContainerPath` is created in the container.
PushLoadCreate(i) ==
    /\ push.pc = "load_run"
    /\ i \in DOMAIN push.loads
    /\ push.loads[i].pc = "create"
    /\ \E ok \in CallOutcomes(ctxDone) :
         push' = IF ok THEN [push EXCEPT !.loads[i].pc = "start",
                                         !.loadCalls = @ \cup {push.loads[i].cid}]
                 ELSE [push EXCEPT !.loads[i].pc = "failed",
                                   !.loadCalls = @ \cup {push.loads[i].cid},
                                   !.err = PushFirstErr("exec create " \o push.loads[i].cid)]
    /\ UNCHANGED <<coreVars, ctxErr, cli>>

\* execContainer, line 403 of the core, in a load task.
PushLoadStart(i) ==
    /\ push.pc = "load_run"
    /\ i \in DOMAIN push.loads
    /\ push.loads[i].pc = "start"
    /\ \E ok \in CallOutcomes(ctxDone) :
         push' = IF ok THEN [push EXCEPT !.loads[i].pc = "done"]
                 ELSE [push EXCEPT !.loads[i].pc = "failed",
                                   !.err = PushFirstErr("exec start " \o push.loads[i].cid)]
    /\ UNCHANGED <<coreVars, ctxErr, cli>>

\* PushImage, lines 71-75: errg.Wait() of the load group.
PushLoadWait ==
    /\ push.pc = "load_run"
    /\ \A i \in DOMAIN push.loads : push.loads[i].pc \in {"done", "failed"}
    /\ push' = IF push.err # NoErr
                 THEN PushReturn(Errorf("unable to load the image on the host", push.err))
                 ELSE PushReturn(NoErr)
    /\ UNCHANGED <<coreVars, ctxErr, cli>>

\* The caller of PushImage cancels the context, or its deadline passes.
PushCtxCancel ==
    /\ push.pc \notin {"off", "returned"}
    /\ ~ctxDone
    /\ ctxErr' \in {Canceled, DeadlineExceeded}
    /\ UNCHANGED <<coreVars, push, cli>>

NextPush ==
    \/ PushCtxCancel
    \/ PushClient
    \/ PushPrepareSave
    \/ PushPrepareTar
    \/ PushList
    \/ \E i \in 1..MaxPush : PushCopyOpen(i)
    \/ \E i \in 1..MaxPush : PushCopy(i)
    \/ PushCopyWait
    \/ \E i \in 1..MaxPush : PushLoadCreate(i)
    \/ \E i \in 1..MaxPush : PushLoadStart(i)
    \/ PushLoadWait

SpecPush == InitPush /\ [][NextPush]_vars

\* A call of CreateCluster or a call of PushImage.
InitCalls == Init \/ InitPush

NextCalls == Next \/ NextPush

SpecCalls == InitCalls /\ [][NextCalls]_vars

\* ------------------------------------------------------- the create command

\* The parameters the flags of the create command can give, lines 54-61: no
\* subnet and no forced pull.
CliFlags == {p \in ParamsSpace : p.NetworkSubnet = "" /\ ~p.PullImage}

\* A record saved by an earlier run of the command.
StoredCluster(name) ==
    [nil |-> FALSE, Name |-> name,
     Cluster |-> [Host |-> "localhost", Port |-> "32768"],
     Host |-> [Host |-> "unix:///var/run/docker.sock"]]

\* store.Exists: an error when a record of that name is stored.
StoreExists(st, name) ==
    IF \E r \in st : r.Name = name THEN "cluster already exists" ELSE NoErr

\* store.Save: the record joins the store.
StoreSave(st, cluster) == st \cup {cluster}

\* A run of the create command, with its flags, on a store that is empty or
\* holds the record of a cluster.
InitCli ==
    /\ NoCreateCall
    /\ ctxErr = NoErr
    /\ push = NoPush
    /\ \E flags \in CliFlags, st \in {{}, {StoredCluster("c1")}} :
         cli = [pc |-> "store_new", flags |-> flags, store |-> st, calls |-> 0, exit |-> 0]

\* os.Exit(1)
CliExit(c) == [c EXCEPT !.pc = "exited", !.exit = 1]

\* runCreate, lines 40-47.
CliStoreNew ==
    /\ cli.pc = "store_new"
    /\ \E ok \in BOOLEAN :
         cli' = IF ok THEN [cli EXCEPT !.pc = "exists"] ELSE CliExit(cli)
    /\ UNCHANGED <<coreVars, ctxErr, push>>

\* The existence check with its error dropped.
CliExistsIgnored ==
    /\ cli.pc = "exists"
    /\ cli' = [cli EXCEPT !.pc = "create"]
    /\ UNCHANGED <<coreVars, ctxErr, push>>

\* runCreate, lines 49-52.
CliExists ==
    /\ cli.pc = "exists"
    /\ cli' = IF StoreExists(cli.store, cli.flags.ClusterName) # NoErr
                THEN CliExit(cli)
                ELSE [cli EXCEPT !.pc = "create"]
    /\ UNCHANGED <<coreVars, ctxErr, push>>

\* runCreate, lines 54-63: the parameters, and the call of CreateCluster.
CliCreateCluster ==
    /\ cli.pc = "create"
    /\ pc = "idle"
    /\ params' = cli.flags
    /\ pc' = "validate"
    /\ cli' = [cli EXCEPT !.pc = "creating", !.calls = @ + 1]
    /\ UNCHANGED <<ctxErr, imageExist, pull, networks, managerNameGenerator,
                   workerNameGenerator, containers, primaryNodeCID, swarmPortV, rc,
                   managerNodeCIDs, workerNodeCIDs, swarm, swarmInfo, joins, nodes, ret,
                   poll, push>>

\* runCreate, lines 63-67: CreateCluster has returned.
CliCreateReturned ==
    /\ cli.pc = "creating"
    /\ pc = "returned"
    /\ cli' = IF ret.err # NoErr THEN CliExit(cli) ELSE [cli EXCEPT !.pc = "save"]
    /\ UNCHANGED <<coreVars, ctxErr, push>>

\* runCreate, lines 69-75.
CliSave ==
    /\ cli.pc = "save"
    /\ \E ok \in BOOLEAN :
         cli' = IF ok THEN [cli EXCEPT !.pc = "exited", !.exit = 0,
                                       !.store = StoreSave(@, ret.cluster)]
                ELSE CliExit(cli)
    /\ UNCHANGED <<coreVars, ctxErr, push>>

NextCli ==
    \/ Next
    \/ CliStoreNew
    \/ CliExists
    \/ CliCreateCluster
    \/ CliCreateReturned
    \/ CliSave

SpecCli == InitCli /\ [][NextCli]_vars

\* ------------------------------------------------------------------ claims
Returned == pc = "returned"
Succeeded == Returned /\ ret.err = NoErr

\* The names of the containers that carry a role label in a state.
WithRole(role, state) ==
    {n \in DOMAIN containers :
        /\ containers[n].Labels.clusterRoleLabel = role
        /\ containers[n].State = state}

\* The ready nodes of a role in a listing.
ReadyOf(l, role) == {i \in DOMAIN l : l[i].Role = role /\ l[i].State = NodeStateReady}

\* Every phase of the bootstrap has succeeded, read from what the phases left.
AllPhasesSucceeded ==
    /\ params.ClusterName # "" /\ params.NetworkName # ""
    /\ params.Managers >= 1 /\ params.Workers >= 0
    /\ IF params.PullImage \/ ~imageExist THEN pull = "drained" ELSE pull = "none"
    /\ \E n \in networks : n.Name = params.NetworkName
    /\ Cardinality(WithRole(primaryNode, "started")) = 1
    /\ primaryNodeCID # "" /\ swarmPortV # ""
    /\ Cardinality(WithRole(managerNode, "started")) = params.Managers - 1
    /\ Cardinality(WithRole(workerNode, "started")) = params.Workers
    /\ swarm.pinged /\ swarm.initialized
    /\ swarmInfo.JoinTokens.Manager # "" /\ swarmInfo.JoinTokens.Worker # ""
    /\ Len(joins.tasks) = params.Managers - 1 + params.Workers
    /\ \A i \in DOMAIN joins.tasks : joins.tasks[i].pc = "done"
    /\ Cardinality(ReadyOf(nodes, NodeRoleManager)) = params.Managers
    /\ Cardinality(ReadyOf(nodes, NodeRoleWorker)) = params.Workers

\* C1: CreateCluster returns a cluster exactly when every phase succeeded,
\* and exactly when it returns no error; a failed phase gives nil and an
\* error, never both a cluster and an error, and nothing is handed out
\* before the return.
C1_ResultIffAllPhases ==
    /\ Returned => /\ (ret.cluster # NilCluster) <=> AllPhasesSucceeded
                   /\ (ret.cluster # NilCluster) <=> (ret.err = NoErr)
    /\ ~Returned => ret = [cluster |-> NilCluster, err |-> NoErr]

C1_Witness ==
    /\ Returned /\ ret.cluster # NilCluster
    /\ params.Managers = 2 /\ params.Workers = 1

\* The parameters C2 is about, read off the fields.
InvalidParams ==
    \/ params.ClusterName = ""
    \/ params.NetworkName = ""
    \/ params.Managers < 1
    \/ params.Workers < 0

\* No call to the container runtime has left a trace.
NoRuntimeCall ==
    /\ pc \in {"validate", "returned"}
    /\ imageExist = FALSE /\ pull = "none"
    /\ networks = {} /\ containers = <<>>
    /\ swarm.initCalls = 0 /\ swarm.inspectCalls = 0 /\ ~swarm.pinged
    /\ joins.tasks = <<>> /\ nodes = <<>>

\* C2: with an empty cluster name, an empty network name, fewer than one
\* manager or a negative worker count, CreateCluster never gets past the
\* validation, issues no runtime call, and returns an "invalid
\* configuration" error.
C2_InvalidParamsFailFirst ==
    InvalidParams =>
        /\ NoRuntimeCall
        /\ Returned =>
             /\ ret.cluster = NilCluster
             /\ ret.err \in {Errorf("invalid configuration", e) :
                               e \in {ErrEmptyClusterName, ErrEmptyNetworkName,
                                      ErrInvalidManagersCount, ErrInvalidWorkerCount}}

C2_Witness ==
    /\ Returned
    /\ params.ClusterName # "" /\ params.NetworkName # ""
    /\ params.Managers = 0 /\ params.Workers >= 0
    /\ ret.err = Errorf("invalid configuration", ErrInvalidManagersCount)

\* C3: after a successful CreateCluster the listing of the last probe held
\* exactly Managers ready managers and exactly Workers ready workers.
C3_ConvergedCounts ==
    Succeeded =>
        /\ Cardinality(ReadyOf(nodes, NodeRoleManager)) = params.Managers
        /\ Cardinality(ReadyOf(nodes, NodeRoleWorker)) = params.Workers

C3_Witness ==
    /\ Succeeded
    /\ params.Workers = 1
    /\ \E i \in DOMAIN nodes : nodes[i].State # NodeStateReady

\* A step starts a container only if the container had been created.
StartedAfterCreated ==
    \A n \in DOMAIN containers' :
        (containers'[n].State = "started" /\
           (n \notin DOMAIN containers \/ containers[n].State # "started"))
        => (n \in DOMAIN containers /\ containers[n].State = "created")

\* The containers of a successful call: Managers + Workers of them, all
\* started, on the cluster's network, labelled with the cluster's name, one
\* primary, Managers - 1 managers, Workers workers.
ContainersOfCluster ==
    /\ Cardinality(DOMAIN containers) = params.Managers + params.Workers
    /\ \A n \in DOMAIN containers :
         /\ containers[n].State = "started"
         /\ containers[n].Labels.clusterNameLabel = params.ClusterName
         /\ containers[n].Network.Endpoint = params.NetworkName
         /\ \E net \in networks : /\ net.ID = containers[n].Network.NetworkID
                                  /\ net.Name = params.NetworkName
    /\ Cardinality(WithRole(primaryNode, "started")) = 1
    /\ Cardinality(WithRole(managerNode, "started")) = params.Managers - 1
    /\ Cardinality(WithRole(workerNode, "started")) = params.Workers

\* C4: a successful CreateCluster has created and started exactly
\* Managers + Workers containers, each created before it is started, all on
\* the cluster network and labelled with the cluster name: one primary,
\* Managers - 1 managers and Workers workers.
C4_ContainersCreatedAndStarted ==
    /\ [](Succeeded => ContainersOfCluster)
    /\ [][StartedAfterCreated]_vars

C4_Witness ==
    /\ Succeeded
    /\ params.Managers = 2 /\ params.Workers = 1
    /\ Cardinality(DOMAIN containers) = 3

\* The join tasks whose command has been sent to the runtime.
JoinIssued(j) == {i \in DOMAIN j.tasks : j.tasks[i].pc # "create"}

\* C5: the swarm is initialized at most once and its tokens are read at most
\* once (once each on success); the initialization is issued only after a
\* ping of the primary's daemon has succeeded, and a join command only after
\* the tokens have been read.
C5_InitAndTokensOnce ==
    /\ [](/\ swarm.initCalls <= 1 /\ swarm.inspectCalls <= 1
          /\ Succeeded => (swarm.initCalls = 1 /\ swarm.inspectCalls = 1)
          /\ swarm.inspectCalls = 1 => swarm.initialized
          /\ JoinIssued(joins) # {} => swarmInfo.JoinTokens.Manager # "")
    /\ [][/\ swarm'.initCalls > swarm.initCalls => swarm.pinged
          /\ JoinIssued(joins') # JoinIssued(joins) =>
                (swarm.inspectCalls = 1 /\ swarmInfo.JoinTokens.Worker # "")]_vars

C5_Witness ==
    /\ Succeeded
    /\ swarm.initCalls = 1 /\ swarm.inspectCalls = 1
    /\ JoinIssued(joins) # {}

\* A fan-out has begun: a provisioning task or a join task exists.
ProvisioningBegun == rc.tasks # <<>> \/ managerNodeCIDs # <<>> \/ workerNodeCIDs # <<>>
JoinBegun == joins.tasks # <<>>
PrimaryStarted == Cardinality(WithRole(primaryNode, "started")) = 1

\* C6 as stated: the primary's creation, the wait for its daemon and the
\* initialization are all complete before any fan-out step begins, the
\* provisioning of the other nodes included.
C6_Original ==
    (ProvisioningBegun \/ JoinBegun) =>
        (PrimaryStarted /\ swarm.pinged /\ swarm.initialized)

\* C6 amended: the three steps are sequential; the primary is created and
\* started before any fan-out; the wait for the daemon and the initialization
\* are complete before the join fan-out, and they begin only after the
\* provisioning fan-out of the other nodes has returned.
C6_PrimaryThenProvisionThenInit ==
    /\ swarm.pinged => PrimaryStarted
    /\ swarm.initCalls > 0 => swarm.pinged
    /\ (ProvisioningBegun \/ JoinBegun) => (PrimaryStarted /\ primaryNodeCID # "")
    /\ JoinBegun => (swarm.pinged /\ swarm.initialized)
    /\ pc \in {"managers", "managers_run", "workers", "workers_run"} =>
          (~swarm.pinged /\ swarm.initCalls = 0)
    /\ (swarm.pinged \/ swarm.initCalls > 0) =>
          (/\ Len(managerNodeCIDs) = params.Managers - 1
           /\ Len(workerNodeCIDs) = params.Workers
           /\ rc.tasks = <<>>)

C6_Witness ==
    /\ pc = "join_run"
    /\ managerNodeCIDs # <<>> /\ workerNodeCIDs # <<>>
    /\ swarm.initialized

\* C7 as stated: every node, the other managers and the workers too, has had
\* its daemon probed with success before its first cluster command.
C7_Original ==
    /\ swarm.initCalls > 0 => primaryNodeCID \in ProbedNodes
    /\ \A i \in JoinIssued(joins) : joins.tasks[i].cid \in ProbedNodes

\* C7 amended: only the primary's daemon is waited for; its successful probe
\* precedes the init command and every join command, and no node a join
\* command goes to has had its own daemon probed.
C7_OnlyPrimaryProbed ==
    /\ ProbedNodes \subseteq {containers[n].ID : n \in WithRole(primaryNode, "started")}
    /\ swarm.initCalls > 0 => primaryNodeCID \in ProbedNodes
    /\ \A i \in JoinIssued(joins) :
         /\ primaryNodeCID \in ProbedNodes
         /\ joins.tasks[i].cid \notin ProbedNodes

C7_Witness ==
    /\ Succeeded
    /\ Cardinality(JoinIssued(joins)) = 2
    /\ ProbedNodes = {primaryNodeCID}

\* The name of a role's node, written out.
NameOf(cluster, role, i) == cluster \o "-" \o role \o "-" \o ToString(i)

\* Cluster names other than the ones CreateCluster is called with here.
OtherClusterNames == {"c2", "c", "c1-manager-1", "c1-worker-0", "c1-manager-"}

\* The names the calls for those cluster names generate.
OtherNames == UNION {NamesOfCluster(c) : c \in OtherClusterNames}

\* C8: the primary is <cluster>-manager-0, the other managers are
\* <cluster>-manager-1..K, the workers <cluster>-worker-0..W-1, under every
\* interleaving of the tasks; no two tasks of a pool hold the same name, no
\* task is given a name already in use, and no name is one that a call for
\* another cluster name generates.
C8_NamesDistinct ==
    /\ \A n \in DOMAIN containers :
         LET role == containers[n].Labels.clusterRoleLabel IN
         /\ role = primaryNode => n = NameOf(params.ClusterName, "manager", 0)
         /\ role = managerNode =>
              n \in {NameOf(params.ClusterName, "manager", i) : i \in 1..(params.Managers - 1)}
         /\ role = workerNode =>
              n \in {NameOf(params.ClusterName, "worker", i) : i \in 0..(params.Workers - 1)}
         /\ n \notin OtherNames
    /\ \A i, j \in DOMAIN rc.tasks : i # j => rc.tasks[i].cName # rc.tasks[j].cName
    /\ \A i \in DOMAIN rc.tasks :
         rc.tasks[i].pc \in {"hostname", "create"} => rc.tasks[i].cName \notin DOMAIN containers
    /\ Succeeded =>
         DOMAIN containers =
            {NameOf(params.ClusterName, "manager", i) : i \in 0..(params.Managers - 1)}
              \cup {NameOf(params.ClusterName, "worker", i) : i \in 0..(params.Workers - 1)}

C8_Witness ==
    /\ Succeeded
    /\ params.Managers = 3
    /\ DOMAIN containers = {"c1-manager-0", "c1-manager-1", "c1-manager-2"}

\* The role label of the container an identifier belongs to.
RoleOfCID(cid) ==
    containers[CHOOSE n \in DOMAIN containers : containers[n].ID = cid].Labels.clusterRoleLabel

\* C9: once the tokens are read, the join fan-out holds one task per
\* non-primary container and none for the primary, no two for the same
\* container; a manager's task carries the manager token, a worker's the
\* worker token, and every task addresses the primary.
C9_OneJoinPerNode ==
    pc \in {"join_run", "cluster_wait"} \/ JoinBegun =>
        /\ swarmInfo.JoinTokens.Manager # "" /\ swarmInfo.JoinTokens.Worker # ""
        /\ swarmInfo.JoinTokens.Manager # swarmInfo.JoinTokens.Worker
        /\ Len(joins.tasks) = params.Managers - 1 + params.Workers
        /\ \A i, j \in DOMAIN joins.tasks : i # j => joins.tasks[i].cid # joins.tasks[j].cid
        /\ {joins.tasks[i].cid : i \in DOMAIN joins.tasks} =
              {containers[n].ID : n \in WithRole(managerNode, "started")
                                        \cup WithRole(workerNode, "started")}
        /\ \A i \in DOMAIN joins.tasks :
             LET t == joins.tasks[i] IN
             /\ t.cid # primaryNodeCID
             /\ t.cmd[5] = (IF RoleOfCID(t.cid) = managerNode
                              THEN swarmInfo.JoinTokens.Manager
                              ELSE swarmInfo.JoinTokens.Worker)
             /\ t.cmd[6] = [host |-> ShortID(primaryNodeCID), port |-> "2377"]

C9_Witness ==
    /\ pc = "join_run"
    /\ params.Managers = 2 /\ params.Workers = 1
    /\ \A i \in DOMAIN joins.tasks : joins.tasks[i].pc = "done"

\* The join tasks that have returned an error.
FailedJoins == {i \in DOMAIN joins.tasks : joins.tasks[i].pc = "failed"}

\* C10: with exactly one failed join task, whichever it is and in whatever
\* order the tasks end, the convergence poll is never started and
\* CreateCluster returns nil and an error.
C10_OneJoinFailureFails ==
    Cardinality(FailedJoins) = 1 =>
        /\ pc \in {"join_run", "returned"}
        /\ nodes = <<>>
        /\ Returned =>
             /\ ret.cluster = NilCluster
             /\ ret.err = Errorf("unable to build the cluster", joins.err)
             /\ joins.err # NoErr

C10_Witness ==
    /\ Returned
    /\ Len(joins.tasks) = 2
    /\ FailedJoins = {2}
    /\ joins.tasks[1].pc = "done"

\* C11: in the join fan-out a failed join task cancels the context of its
\* siblings: once a join task has failed, a sibling that has not yet issued
\* its join command holds a context that is done.
C11_FailedJoinCancelsSiblings ==
    (pc = "join_run" /\ FailedJoins # {}
       /\ \E j \in DOMAIN joins.tasks : joins.tasks[j].pc = "create")
      => joinCtxDone

InPoller == pc \in {"daemon_wait", "cluster_wait"}

\* What CreateCluster returns when the poller it is in returns the error e.
PollerError(e) ==
    IF pc = "daemon_wait" THEN Errorf("unable to connect to the swarm cluster", e)
    ELSE Errorf("unable to check swarm cluste", e)

\* C12: a failed probe of waitDaemonReady or waitClusterReady never ends the
\* poller: a poller ends without an error only at a probe that succeeded, and
\* with an error only when the caller's context is done, the error being that
\* context's own (cancelled or deadline exceeded); a step that is a failed
\* probe leaves the poller running.
C12_FailedProbeRetried ==
    [][InPoller =>
         /\ (pc' # pc /\ ret'.err = NoErr) => poll'.last \in {"pong", "match"}
         /\ (pc' # pc /\ ret'.err # NoErr) =>
               /\ ctxDone
               /\ ctxErr \in {Canceled, DeadlineExceeded}
               /\ pc' = "returned"
               /\ ret'.err = PollerError(ctxErr)
         /\ (poll.tick /\ ~poll'.tick /\ poll'.last = "error" /\ ~ctxDone) => pc' = pc]_vars

\* A listing failed, the poller went on, and it returned the deadline's error.
C12_Witness ==
    /\ Returned
    /\ poll.last = "error"
    /\ ret.err = Errorf("unable to check swarm cluste", DeadlineExceeded)

DeadlineFailure ==
    /\ Returned
    /\ ret.cluster = NilCluster
    /\ ret.err = Errorf("unable to check swarm cluste", DeadlineExceeded)

C14_ReturnsAtFirstMatch ==
    /\ [][(InPoller /\ poll' # poll /\ poll'.last \in {"pong", "match"})
            => (pc' # pc /\ ret'.err = NoErr)]_vars
    /\ [][(pc = "cluster_wait" /\ poll' # poll /\ poll'.last = "match")
            => (Succeeded' /\ nodes' # nodes)]_vars
    /\ [](poll.extra = 0)
    /\ [][Returned => UNCHANGED <<poll, swarm, nodes, ret>>]_vars

\* The wait ended at a probe that saw the expected counts, after a ping that
\* reached the daemon.
C14_Witness ==
    /\ Succeeded
    /\ poll.last = "match"
    /\ poll.extra = 0
    /\ swarm.pinged
    /\ params.Workers > 0

\* C17: a call creates at most one network and has created exactly one
\* before any container exists; the network bears the network name and the
\* label of the cluster name, and is asked for with exactly one IPAM
\* configuration, of the subnet of the parameters, when NetworkSubnet is not
\* empty, and with none when it is empty.
C17_OneLabelledNetwork ==
    /\ Cardinality(networks) <= 1
    /\ (DOMAIN containers # {} \/ Succeeded) => Cardinality(networks) = 1
    /\ \A n \in networks :
         /\ n.Name = params.NetworkName
         /\ n.Labels.clusterNameLabel = params.ClusterName
         /\ params.NetworkSubnet # "" =>
               (Len(n.IPAM) = 1 /\ n.IPAM[1].Subnet = params.NetworkSubnet)
         /\ params.NetworkSubnet = "" => Len(n.IPAM) = 0

\* A cluster asked for with a subnet, with its network and its containers.
C17_Witness ==
    /\ Succeeded
    /\ params.NetworkSubnet = "10.7.0.0/24"
    /\ \E n \in networks : n.IPAM = <<[Subnet |-> "10.7.0.0/24"]>>
    /\ DOMAIN containers # {}

\* C18: CreateCluster removes nothing it has created: in every step, the
\* failing ones included, each network and each container that exists goes
\* on existing under the same identifier, and a started container stays
\* started; so whatever was created before a failure exists at the return.
C18_NothingRemoved ==
    [][/\ networks \subseteq networks'
       /\ DOMAIN containers \subseteq DOMAIN containers'
       /\ \A n \in DOMAIN containers :
            /\ containers'[n].ID = containers[n].ID
            /\ containers[n].State = "started" => containers'[n].State = "started"]_vars

\* A pool failed at the creation of one container while a sibling task had
\* already created its own: the call has returned the failure, and the
\* network, the primary and the sibling's container, never started, exist.
C18_Witness ==
    /\ Returned
    /\ ret.err # NoErr
    /\ networks # {}
    /\ primaryNodeCID # "" /\ \E n \in DOMAIN containers : containers[n].ID = primaryNodeCID
    /\ \E i, j \in DOMAIN rc.tasks :
         /\ i # j
         /\ rc.err = "create " \o rc.tasks[i].cName
         /\ rc.tasks[i].cName \notin DOMAIN containers
         /\ rc.tasks[j].pc = "failed"
         /\ rc.tasks[j].cName \in DOMAIN containers
         /\ containers[rc.tasks[j].cName].State = "created"

FailedTasks == {i \in DOMAIN rc.tasks : rc.tasks[i].pc = "failed"}

\* The errors a task of the pool can return.
TaskErrors(i) == {"create " \o rc.tasks[i].cName, "start " \o rc.tasks[i].cName}

\* CreateCluster has returned the failure of a pool of runContainers.
PoolFailure == Returned /\ rc.err # NoErr

\* C19: a task of runContainers that fails cancels the context of the group
\* and its error is kept if it is the first; runContainers returns only when
\* every task has returned, and then CreateCluster returns that first error
\* alone, wrapped, with no cluster and no identifier of the pool, and runs
\* nothing more: no later pool, no wait for the daemon, no init, no join.
C19_PoolFailsFast ==
    /\ [](FailedTasks # {} => (rc.err # NoErr /\ rc.groupCtxDone))
    /\ [][rc.err # NoErr => rc'.err = rc.err]_vars
    /\ [](PoolFailure =>
            /\ Len(rc.tasks) = rc.total
            /\ \A i \in DOMAIN rc.tasks : rc.tasks[i].pc \in {"done", "failed"}
            /\ \E i \in FailedTasks : rc.err \in TaskErrors(i)
            /\ ret.cluster = NilCluster
            /\ ret.err = Errorf(IF rc.role = managerNode THEN "unable to create manager nodes"
                                ELSE "unable to create worker nodes", rc.err)
            /\ IF rc.role = managerNode
                 THEN /\ managerNodeCIDs = <<>> /\ workerNodeCIDs = <<>>
                      /\ \A n \in DOMAIN containers :
                           containers[n].Labels.clusterRoleLabel # workerNode
                 ELSE workerNodeCIDs = <<>>
            /\ ~swarm.pinged /\ swarm.initCalls = 0 /\ swarm.inspectCalls = 0
            /\ poll = NoPoll
            /\ joins = NoJoins)

\* Two tasks of a pool failed while the caller's context was live; the call
\* returned the error of one of them.
C19_Witness ==
    /\ PoolFailure
    /\ ~ctxDone
    /\ Cardinality(FailedTasks) >= 2
    /\ \E i \in FailedTasks : rc.err = "start " \o rc.tasks[i].cName

PushReturned == push.pc = "returned"

\* PushImage has got past prepareArchive.
PushPrepared == push.pc \in {"list", "copy_run", "load_run"} \/ push.loads # <<>>
                  \/ push.copies # <<>>

FailedCopies == {i \in DOMAIN push.copies : push.copies[i].pc = "failed"}

\* The containers of the listing.
PushTargets == {push.containers[i] : i \in DOMAIN push.containers}

\* C15: PushImage saves and packages the images once; it runs one copy task
\* per listed container; a load command goes to a container only when the
\* copy task of every listed container has ended in success, and there is
\* then one load task per container; when a copy task fails no load command
\* is sent at all and PushImage returns an error.
C15_LoadAfterAllCopies ==
    /\ push.saves <= 1
    /\ PushPrepared => push.saves = 1
    /\ push.pc \in {"copy_run", "load_run"} =>
         /\ Len(push.copies) = Len(push.containers)
         /\ \A i \in DOMAIN push.copies : push.copies[i].cid = push.containers[i]
    /\ (push.loadCalls # {} \/ push.loads # <<>>) =>
         /\ \A i \in DOMAIN push.copies : push.copies[i].pc = "done"
         /\ push.copied = PushTargets
         /\ Len(push.loads) = Len(push.containers)
         /\ \A i \in DOMAIN push.loads : push.loads[i].cid = push.containers[i]
         /\ push.loadCalls \subseteq PushTargets
    /\ FailedCopies # {} => (push.loadCalls = {} /\ push.loads = <<>>)
    /\ (FailedCopies # {} /\ PushReturned) =>
         push.ret = Errorf("unable to deploy the image to host", push.err)

\* Three containers received the archive and then the load command, and
\* PushImage returned nil.
C15_Witness ==
    /\ PushReturned
    /\ push.ret = NoErr
    /\ Len(push.containers) = 3
    /\ Cardinality(push.copied) = 3
    /\ Cardinality(push.loadCalls) = 3
    /\ \A i \in DOMAIN push.loads : push.loads[i].pc = "done"

\* The store holds a record of the name the command was given.
NameStored == \E r \in cli.store : r.Name = cli.flags.ClusterName

\* The command has saved the record of its cluster.
CliSaved == cli.pc = "exited" /\ cli.exit = 0

\* C16: the create command checks the store for the cluster name before it
\* calls CreateCluster; when the name is stored it exits with status 1 and
\* makes no call of CreateCluster, so that nothing is provisioned; the store
\* changes only by the record of a CreateCluster that has returned without
\* error, and never after one that failed.
C16_CheckThenCreateThenSave ==
    /\ [](cli.pc \in {"store_new", "exists"} => (cli.calls = 0 /\ pc = "idle"))
    /\ []((cli.calls > 0 /\ ~CliSaved) => ~NameStored)
    /\ []((NameStored /\ ~CliSaved) =>
            /\ cli.calls = 0 /\ pc = "idle" /\ networks = {} /\ DOMAIN containers = {}
            /\ cli.pc \in {"store_new", "exists", "exited"}
            /\ cli.pc = "exited" => cli.exit = 1)
    /\ [](cli.calls <= 1)
    /\ [][cli'.store # cli.store =>
            /\ Succeeded
            /\ cli'.store = cli.store \cup {ret.cluster}
            /\ ret.cluster.Name = cli.flags.ClusterName]_vars
    /\ []((Returned /\ ret.err # NoErr /\ cli.pc = "exited") => cli.exit = 1)

\* The command created a cluster of two nodes and saved its record.
C16_Witness ==
    /\ CliSaved
    /\ Succeeded
    /\ ret.cluster \in cli.store
    /\ cli.calls = 1
    /\ cli.flags.Managers + cli.flags.Workers = 2

Ended(tasks) == \A i \in DOMAIN tasks : tasks[i].pc \in {"done", "failed"}

Distinct(q) == Cardinality({q[i] : i \in DOMAIN q}) = Len(q)

\* C20: every group of tasks is waited for: runContainers, the join step,
\* the copy step and the load step are left, and CreateCluster and PushImage
\* return, only when each task of the group has ended; a task of
\* runContainers that has its identifier to send can always send it; the
\* identifiers pass to the caller in a step that finds every task ended;
\* and a pool that succeeded hands over one identifier per node asked for,
\* each of another container of that pool.
C20_FanOutsJoined ==
    /\ [][(InRunContainers /\ pc' # pc) => (Len(rc.tasks) = rc.total /\ Ended(rc.tasks))]_vars
    /\ [][(pc = "join_run" /\ pc' # pc) =>
            (Len(joins.tasks) = Len(managerNodeCIDs) + Len(workerNodeCIDs)
               /\ Ended(joins.tasks))]_vars
    /\ [][(push.pc = "copy_run" /\ push'.pc # push.pc) =>
            (Len(push.copies) = Len(push.containers) /\ Ended(push.copies))]_vars
    /\ [][(push.pc = "load_run" /\ push'.pc # push.pc) =>
            (Len(push.loads) = Len(push.containers) /\ Ended(push.loads))]_vars
    /\ [](Returned => (Ended(rc.tasks) /\ Ended(joins.tasks)))
    /\ [](PushReturned => (Ended(push.copies) /\ Ended(push.loads)))
    /\ [](\A i \in 1..MaxTasks :
            (InRunContainers /\ i \in DOMAIN rc.tasks /\ rc.tasks[i].pc = "send")
              => ENABLED TaskSend(i))
    /\ [][(managerNodeCIDs' # managerNodeCIDs \/ workerNodeCIDs' # workerNodeCIDs) =>
            /\ Ended(rc.tasks) /\ FailedTasks = {}
            /\ Len(rc.cIDs) = rc.total]_vars
    /\ [](pc \in {"workers", "workers_run", "swarm_client"} =>
            /\ Len(managerNodeCIDs) = params.Managers - 1
            /\ Distinct(managerNodeCIDs)
            /\ \A i \in DOMAIN managerNodeCIDs :
                 /\ managerNodeCIDs[i] # primaryNodeCID
                 /\ RoleOfCID(managerNodeCIDs[i]) = managerNode)
    /\ [](pc = "swarm_client" =>
            /\ Len(workerNodeCIDs) = params.Workers
            /\ Distinct(workerNodeCIDs)
            /\ \A i \in DOMAIN workerNodeCIDs : RoleOfCID(workerNodeCIDs[i]) = workerNode)

\* Both pools and the join step of a cluster of three nodes have been waited
\* for, with two identifiers handed over by one pool.
C20_Witness ==
    /\ pc = "cluster_wait"
    /\ Len(managerNodeCIDs) + Len(workerNodeCIDs) = 2
    /\ Len(managerNodeCIDs) = 2 \/ Len(workerNodeCIDs) = 2
    /\ Len(joins.tasks) = 2 /\ Ended(joins.tasks)

\* ImagePull has been called: its stream is open or read, or the call failed.
PullCalled == pull # "none" \/ ret.err = Errorf("unable to pull the image", "pull")

\* The call failed at the pull or at the reading of its stream.
PullFailure ==
    ret.err \in {Errorf("unable to pull the image", "pull"),
                 Errorf("unable to pull the image", "read")}

\* C21: the image counts as found exactly when the listing succeeded and is
\* not empty; the step that queries the image calls ImagePull exactly when
\* the pull is forced or the image was not found; a network or a container
\* exists only when no pull was due or the stream of the pull has been read
\* to its end; and a failure of the pull or of the reading returns no
\* cluster and leaves no network and no container.
C21_PullIffForcedOrAbsent ==
    /\ [](\A listOK \in BOOLEAN, imageList \in {<<>>, <<imageName(params)>>} :
            imageAlreadyExist(listOK, imageList) <=> (listOK /\ imageList # <<>>))
    /\ [][(pc = "image" /\ pc' # pc) =>
            (PullCalled' <=> (params.PullImage \/ ~imageExist'))]_vars
    /\ []((networks # {} \/ DOMAIN containers # {}) =>
            /\ pull \in {"none", "drained"}
            /\ (params.PullImage \/ ~imageExist) <=> pull = "drained")
    /\ [](pull = "open" => pc \in {"drain", "returned"})
    /\ [](PullFailure =>
            /\ Returned /\ ret.cluster = NilCluster
            /\ networks = {} /\ DOMAIN containers = {})

\* An image that was not found and not forced was pulled and read to the
\* end, and the cluster was built on it.
C21_Witness ==
    /\ Succeeded
    /\ ~params.PullImage
    /\ ~imageExist
    /\ pull = "drained"
    /\ networks # {} /\ DOMAIN containers # {}

\* PushImage is past a prepareArchive that succeeded, and has not returned.
PushArchived == push.pc \in {"list", "copy_run", "load_run"}

\* What PushImage returns on the paths that follow prepareArchive.
PushLateReturns ==
    {NoErr, "unable to get container list " \o "list",
     Errorf("unable to deploy the image to host", push.err),
     Errorf("unable to load the image on the host", push.err)}

\* C22: from the success of prepareArchive to the return of PushImage the
\* archive exists, so that every copy task finds it; it is removed in the
\* step in which PushImage returns, whether the listing failed, a copy task
\* failed, a load task failed or all went well, and in no other step: when
\* it goes, every copy task has ended.
C22_ArchiveRemovedAtReturn ==
    /\ [](PushArchived => push.tarFile)
    /\ [][(PushArchived /\ push'.pc = "returned") =>
            (~push'.tarFile /\ push'.ret \in PushLateReturns')]_vars
    /\ [][(push.tarFile /\ ~push'.tarFile) =>
            (PushArchived /\ push'.pc = "returned" /\ Ended(push.copies))]_vars
    /\ []((PushReturned /\ push.ret \in PushLateReturns) => ~push.tarFile)
    /\ [](\A i \in DOMAIN push.copies :
            push.copies[i].pc \in {"open", "copy"} => push.tarFile)

\* Three containers received the archive, a load task failed, and PushImage
\* returned that failure with the archive removed.
C22_Witness ==
    /\ PushReturned
    /\ push.ret = Errorf("unable to load the image on the host", push.err)
    /\ push.err # NoErr
    /\ Cardinality(push.copied) = 3
    /\ ~push.tarFile

\* The containers of the two pools of runContainers.
PoolContainers ==
    {n \in DOMAIN containers : containers[n].Labels.clusterRoleLabel \in {managerNode, workerNode}}

\* C23: every container of a pool of runContainers has for Hostname the name
\* it was created under, and no two of them have the same Hostname.
C23_HostnameIsName ==
    /\ \A n \in PoolContainers : containers[n].Hostname = n
    /\ \A n, o \in PoolContainers : n # o => containers[n].Hostname # containers[o].Hostname

\* The containers of a role, whatever their state.
OfRole(role) == {n \in DOMAIN containers : containers[n].Labels.clusterRoleLabel = role}

\* The primary was created, started, inspected and found to expose 2375/tcp.
PrimaryReady ==
    /\ PrimaryName \in DOMAIN containers
    /\ containers[PrimaryName].Labels.clusterRoleLabel = primaryNode
    /\ containers[PrimaryName].State = "started"
    /\ primaryNodeCID = containers[PrimaryName].ID
    /\ swarmPortV # ""

\* Every task of the manager pool has created and started its container and
\* the pool has handed their identifiers over.
ManagerPoolDone ==
    /\ Cardinality(OfRole(managerNode)) = params.Managers - 1
    /\ OfRole(managerNode) = WithRole(managerNode, "started")
    /\ Len(managerNodeCIDs) = params.Managers - 1
    /\ {managerNodeCIDs[i] : i \in DOMAIN managerNodeCIDs}
          = {containers[n].ID : n \in OfRole(managerNode)}

\* CreateCluster is before its call of runContainers for the managers.
BeforePools ==
    pc \in {"idle", "validate", "image", "drain", "network", "primary_create",
            "primary_start", "inspect", "managers"}

\* C24: the two pools are provisioned one after the other. While the manager
\* pool runs or has failed there is no worker container; a worker container
\* exists only when every manager task has created and started its container
\* and the pool has handed the identifiers over; and no container of a pool
\* exists unless the primary was created, started, inspected and found to
\* expose its control port, so none exists before the call for the managers.
C24_PoolsInOrder ==
    /\ rc.role = managerNode => OfRole(workerNode) = {}
    /\ pc \in {"managers_run", "workers"} => OfRole(workerNode) = {}
    /\ OfRole(workerNode) # {} => ManagerPoolDone
    /\ (pc = "workers_run" \/ rc.role = workerNode) => ManagerPoolDone
    /\ PoolContainers # {} => PrimaryReady
    /\ (InRunContainers \/ rc # NoRC) => PrimaryReady
    /\ BeforePools => PoolContainers = {}
    /\ (Returned /\ ~PrimaryReady) => PoolContainers = {}

\* A worker has been created after the pool of one other manager completed.
C24_Witness ==
    /\ params.Managers = 2
    /\ pc = "workers_run"
    /\ OfRole(workerNode) # {}
    /\ WithRole(managerNode, "started") # {}
    /\ swarmPortV = "32768"

====
